---- MODULE Spec2Model ----
(***************************************************************************)
(* A state-machine model of arkemis-money: the Money value type            *)
(* (money/core.py) and the IFX governance layer (money/ifx.py): signed     *)
(* transactions, the qualification gate, the hash-chained ledger and the   *)
(* qualify_and_execute workflow.                                           *)
(*                                                                         *)
(* Conventions.                                                            *)
(*   Optional[T]   None is <<>>, a present value x is <<x>>.               *)
(*   str           a sequence of string tokens; an f-string is the         *)
(*                 concatenation of its literal pieces and the formatted   *)
(*                 values.  Identifiers (tx_id, source, ...) are single    *)
(*                 TLA+ strings.                                           *)
(*   float         confidences are integers in hundredths (0.85 is 85).    *)
(*   call result   [kind |-> "none"] before any call,                      *)
(*                 [kind |-> "raised", error |-> E] when the call raised,  *)
(*                 [kind |-> "ok", value |-> v] when it returned v.        *)
(*   SHA-256       an injective tagging of the serialized content.         *)
(***************************************************************************)
EXTENDS Integers, Sequences, FiniteSets, TLC

VARIABLES
    d_m,        \* distribute: the receiver Money
    d_n,        \* distribute: the argument n
    d_out,      \* distribute: the result of the call
    t_recv,     \* transaction: the receiver of the last method call
    t_op,       \* transaction: the method called last
    t_out,      \* transaction: what that call returned or raised
    g_policy,   \* gate: Gate.policy
    g_checks,   \* gate: Gate._custom_checks, in registration order
    g_tx,       \* gate: the transaction of the last evaluate (Optional)
    g_out,      \* gate: what the last evaluate returned or raised
    l_arg,      \* ledger: the max_entries argument of Ledger(...) (Optional)
    l_max,      \* ledger: Ledger._max_entries
    l_entries,  \* ledger: Ledger._entries
    l_op,       \* ledger: the operation done last
    l_out,      \* ledger: what the last call returned or raised
    l_tamper,   \* ledger: the index of the entry altered behind the API (Optional)
    w_policy,   \* workflow: ExecutionContext.policy
    w_in,       \* workflow: the arguments of the last qualify_and_execute (Optional)
    w_out,      \* workflow: what that call returned or raised
    w_events,   \* workflow: the appends and callback invocations of that call, in order
    r_log,      \* gate: the evaluations made since the check list last changed
    m_recv,     \* money: the receiver Money of the call
    m_op,       \* money: the method called
    m_args,     \* money: the arguments of the call
    m_out,      \* money: what the call returned or raised
    a_total,    \* allocation: Allocation._total
    a_allocated, \* allocation: Allocation._allocated
    a_parts,    \* allocation: Allocation._parts
    a_op,       \* allocation: the method called last
    a_out,      \* allocation: what that call returned or raised
    a_finalized \* allocation: the number of finalize() calls made

distVars == <<d_m, d_n, d_out>>
txVars == <<t_recv, t_op, t_out>>
gateVars == <<g_policy, g_checks, g_tx, g_out>>
ledgerVars == <<l_arg, l_max, l_entries, l_op, l_out, l_tamper>>
wfVars == <<w_policy, w_in, w_out, w_events>>
replayVars == <<r_log>>
moneyVars == <<m_recv, m_op, m_args, m_out>>
allocVars == <<a_total, a_allocated, a_parts, a_op, a_out, a_finalized>>
vars == <<distVars, txVars, gateVars, ledgerVars, wfVars, replayVars, moneyVars, allocVars>>

----------------------------------------------------------------------------
(* Generic helpers *)

None == <<>>
Some(x) == <<x>>

NoCall == [kind |-> "none"]
Raised(e) == [kind |-> "raised", error |-> e]
Ok(v) == [kind |-> "ok", value |-> v]

RECURSIVE SumSeq(_)
SumSeq(s) == IF s = <<>> THEN 0 ELSE Head(s) + SumSeq(Tail(s))

----------------------------------------------------------------------------
(* money/core.py: Currency and Money *)

\* Currency: code -> decimals of the minor unit
CurrencyDecimals ==
    [c \in {"EUR", "USD", "GBP", "JPY", "KWD", "BTC"} |->
        CASE c = "EUR" -> 2
          [] c = "USD" -> 2
          [] c = "GBP" -> 2
          [] c = "JPY" -> 0
          [] c = "KWD" -> 3
          [] c = "BTC" -> 8]

Currency == DOMAIN CurrencyDecimals

\* Money.of_minor
of_minor(minor_units, currency) ==
    [minor_units |-> minor_units, currency |-> currency]

\* Money.MAX_DISTRIBUTION_PARTS
MAX_DISTRIBUTION_PARTS == 10000

\* the list comprehension of Money.distribute: part i (0-based) gets
\* base + 1 when i < remainder
distribute_part_off_by_one(base, remainder, i) ==
    base + (IF i <= remainder THEN 1 ELSE 0)

distribute_part_all_to_first(base, remainder, i) ==
    base + (IF i = 0 THEN remainder ELSE 0)

distribute_part(base, remainder, i) ==
    base + (IF i < remainder THEN 1 ELSE 0)

distribute_extra_to_last(m, n) ==
    IF n <= 0 THEN Raised("ValueError")
    ELSE IF n > MAX_DISTRIBUTION_PARTS THEN Raised("ValueError")
    ELSE LET base == m.minor_units \div n
             remainder == m.minor_units % n
         IN  Ok([i \in 1..n |->
                    of_minor(distribute_part(base, remainder, n - i), m.currency)])

\* Money.distribute(n); Python's // and % are floor division and the
\* non-negative remainder for n > 0, as \div and % are here
distribute(m, n) ==
    IF n <= 0 THEN Raised("ValueError")
    ELSE IF n > MAX_DISTRIBUTION_PARTS THEN Raised("ValueError")
    ELSE LET base == m.minor_units \div n
             remainder == m.minor_units % n
         IN  Ok([i \in 1..n |->
                    of_minor(distribute_part(base, remainder, i - 1), m.currency)])

----------------------------------------------------------------------------
(* money/core.py: rounding.  A float is the rational num / den, den > 0.   *)
(* Every binary64 operation is correctly rounded, so an operation on exact *)
(* operands whose true result is a small integer or half-integer returns   *)
(* it exactly; after an inexact intermediate (a quotient like 22 / 100 that *)
(* is no binary fraction) the result may lie just below or just above the  *)
(* true value.                                                             *)

Rat(num, den) == [num |-> num, den |-> den]

\* math.floor, math.ceil and int() of a float
floor(v) == v.num \div v.den
ceil(v) == -((-v.num) \div v.den)
int(v) == IF v.num >= 0 THEN floor(v) ELSE ceil(v)

\* round(): to the nearest integer, a tie to the even one
round(v) ==
    LET f == floor(v)
        twice_frac == 2 * (v.num - f * v.den)
    IN  IF twice_frac < v.den THEN f
        ELSE IF twice_frac > v.den THEN f + 1
        ELSE IF f % 2 = 0 THEN f ELSE f + 1

\* v + 0.5 and v - 0.5
plus_half(v) == Rat(2 * v.num + v.den, 2 * v.den)
minus_half(v) == Rat(2 * v.num - v.den, 2 * v.den)

RoundingMode == {"half_up", "half_even", "down", "up", "half_down"}

\* _apply_rounding(value, mode)
apply_rounding(value, mode) ==
    CASE mode = "half_up" -> floor(plus_half(value))
      [] mode = "half_even" -> round(value)
      [] mode = "down" -> IF value.num >= 0 THEN int(value) ELSE ceil(value)
      [] mode = "up" -> IF value.num >= 0 THEN ceil(value) ELSE int(value)
      [] mode = "half_down" ->
            IF value.num >= 0 THEN ceil(minus_half(value)) ELSE floor(plus_half(value))

RECURSIVE gcd(_, _)
gcd(x, y) == IF y = 0 THEN x ELSE gcd(y, x % y)

RECURSIVE IsPowerOfTwo(_)
IsPowerOfTwo(n) == n = 1 \/ (n % 2 = 0 /\ IsPowerOfTwo(n \div 2))

\* a / b (b > 0) is a binary fraction: the float quotient is exact
ExactQuotient(a, b) ==
    IsPowerOfTwo(b \div gcd(IF a < 0 THEN -a ELSE a, b))

\* the floats a computation with true value num / den can return after an
\* inexact intermediate: the true value or a value just beside it
FloatNear(num, den) ==
    {Rat(4 * num - 1, 4 * den), Rat(num, den), Rat(4 * num + 1, 4 * den)}

\* the float k * (a / b), for integers k, a and b > 0
float_times_quotient(k, a, b) ==
    IF k = 0 \/ ExactQuotient(a, b) THEN {Rat(k * a, b)} ELSE FloatNear(k * a, b)

\* the float k / (1 + a / b), for integers k, a and b > 0 with a + b # 0
float_over_one_plus(k, a, b) ==
    LET num == IF a + b > 0 THEN k * b ELSE -(k * b)
        den == IF a + b > 0 THEN a + b ELSE -(a + b)
    IN  IF k = 0 \/ ExactQuotient(a, b) THEN {Rat(num, den)} ELSE FloatNear(num, den)

----------------------------------------------------------------------------
(* money/core.py: distribute_weighted and the fiscal operations *)

\* an operand is a Money, a Python int [int |-> n] or a Python float
\* [float |-> Rat(num, den)]; isinstance(other, Money) and isinstance(x, int)
isinstance_Money(other) == "currency" \in DOMAIN other
isinstance_int(x) == "int" \in DOMAIN x

\* Money.__add__
money_add(a, b) ==
    IF ~isinstance_Money(b) THEN Raised("TypeError")
    ELSE IF a.currency # b.currency THEN Raised("TypeError")
    ELSE Ok(of_minor(a.minor_units + b.minor_units, a.currency))

\* Money.__sub__
money_sub_any_currency(a, b) ==
    IF ~isinstance_Money(b) THEN Raised("TypeError")
    ELSE Ok(of_minor(a.minor_units - b.minor_units, a.currency))

money_sub(a, b) ==
    IF ~isinstance_Money(b) THEN Raised("TypeError")
    ELSE IF a.currency # b.currency THEN Raised("TypeError")
    ELSE Ok(of_minor(a.minor_units - b.minor_units, a.currency))

\* Money.__mul__
money_mul(a, factor) ==
    IF ~isinstance_int(factor) THEN Raised("TypeError")
    ELSE Ok(of_minor(a.minor_units * factor.int, a.currency))

\* a == b with a Money on the left: Money.__eq__ returns NotImplemented for
\* a non-Money, the reflected comparison of an int or a float does too, and
\* the expression is then False
money_eq(a, b) ==
    /\ isinstance_Money(b)
    /\ a.minor_units = b.minor_units
    /\ a.currency = b.currency

\* weights.index(max(weights)), as a 1-based index
last_index_of_max(weights) ==
    CHOOSE i \in 1..Len(weights) :
        /\ \A j \in 1..Len(weights) : weights[j] <= weights[i]
        /\ \A j \in (i + 1)..Len(weights) : weights[j] # weights[i]

first_index_of_max(weights) ==
    CHOOSE i \in 1..Len(weights) :
        /\ \A j \in 1..Len(weights) : weights[j] <= weights[i]
        /\ \A j \in 1..(i - 1) : weights[j] # weights[i]

\* the lists raw_amounts the floats of distribute_weighted can be:
\* raw_amounts[i] is the float minor_units * (weights[i] / total_weight)
RECURSIVE raw_amounts_from(_, _, _, _)
raw_amounts_from(m, weights, total_weight, i) ==
    IF i > Len(weights) THEN {<<>>}
    ELSE {<<v>> \o rest :
             v \in float_times_quotient(m.minor_units, weights[i], total_weight),
             rest \in raw_amounts_from(m, weights, total_weight, i + 1)}

RawAmounts(m, weights) ==
    IF \/ \E i \in 1..Len(weights) : weights[i] < 0
       \/ SumSeq(weights) = 0
    THEN {<<>>}
    ELSE raw_amounts_from(m, weights, SumSeq(weights), 1)

\* Money.distribute_weighted(weights, rounding)
distribute_weighted(m, weights, rounding, raw_amounts) ==
    IF Len(weights) = 0 THEN Raised("ValueError")
    ELSE IF Len(weights) > MAX_DISTRIBUTION_PARTS THEN Raised("ValueError")
    ELSE IF \E i \in 1..Len(weights) : weights[i] < 0 THEN Raised("ValueError")
    ELSE IF SumSeq(weights) = 0 THEN Raised("ValueError")
    ELSE LET rounded == [i \in 1..Len(weights) |-> apply_rounding(raw_amounts[i], rounding)]
             diff == m.minor_units - SumSeq(rounded)
             max_idx == first_index_of_max(weights)
             adjusted == IF diff # 0
                         THEN [rounded EXCEPT ![max_idx] = @ + diff]
                         ELSE rounded
         IN  Ok([i \in 1..Len(weights) |-> of_minor(adjusted[i], m.currency)])

\* Money.add_vat(rate_percent, rounding); vat_float is the float
\* minor_units * (rate_percent / 100)
add_vat(m, rate_percent, rounding, vat_float) ==
    LET vat_minor == apply_rounding(vat_float, rounding)
    IN  Ok(<<m,
             of_minor(vat_minor, m.currency),
             of_minor(m.minor_units + vat_minor, m.currency)>>)

\* Money.extract_vat(rate_percent, rounding); net_float is the float
\* minor_units / (1 + rate_percent / 100), a division by zero at -100
extract_vat(m, rate_percent, rounding, net_float) ==
    IF 100 + rate_percent = 0 THEN Raised("ZeroDivisionError")
    ELSE LET net_minor == apply_rounding(net_float, rounding)
             vat_minor == m.minor_units - net_minor
         IN  Ok(<<of_minor(net_minor, m.currency),
                  of_minor(vat_minor, m.currency),
                  m>>)

\* Money.apply_discount(percent, rounding); discount_float is the float
\* minor_units * (percent / 100)
apply_discount_rounding_both(m, percent, rounding, discount_float) ==
    Ok(<<of_minor(apply_rounding(discount_float, rounding), m.currency),
         of_minor(apply_rounding(Rat(m.minor_units * (100 - percent), 100), rounding),
                  m.currency)>>)

apply_discount(m, percent, rounding, discount_float) ==
    LET discount_minor == apply_rounding(discount_float, rounding)
    IN  Ok(<<of_minor(discount_minor, m.currency),
             of_minor(m.minor_units - discount_minor, m.currency)>>)

----------------------------------------------------------------------------
(* money/core.py: comparison and output of Money *)

RECURSIVE Pow10(_)
Pow10(k) == IF k = 0 THEN 1 ELSE 10 * Pow10(k - 1)

\* Currency.multiplier
multiplier(currency) == Pow10(CurrencyDecimals[currency])

\* Money.of: major units to minor units
of(major_units, currency) ==
    [minor_units |-> major_units * multiplier(currency), currency |-> currency]

\* Money.euro
euro(value) == of(value, "EUR")

\* the decimal digits of n >= 0, zero-padded on the left to width w
RECURSIVE Digits(_, _)
Digits(n, w) ==
    IF w <= 1 /\ n < 10 THEN <<ToString(n)>>
    ELSE Digits(n \div 10, w - 1) \o <<ToString(n % 10)>>

\* Money.__repr__ / __str__
money_repr(m) ==
    LET sgn == IF m.minor_units < 0 THEN <<"-">> ELSE <<>>
        abs_minor == IF m.minor_units < 0 THEN -m.minor_units ELSE m.minor_units
        decimals == CurrencyDecimals[m.currency]
    IN  IF decimals = 0
        THEN sgn \o Digits(abs_minor, 1) \o <<" ", m.currency>>
        ELSE sgn \o Digits(abs_minor \div multiplier(m.currency), 1) \o <<".">>
                  \o Digits(abs_minor % multiplier(m.currency), decimals)
                  \o <<" ", m.currency>>

\* Money.to_dict
money_to_dict(m) == [minor_units |-> m.minor_units, currency |-> m.currency]

\* Money._check_same_currency: raises TypeError on a non-Money and on
\* different currencies
check_same_currency(a, b) ==
    IF ~isinstance_Money(b) THEN Raised("TypeError")
    ELSE IF a.currency # b.currency THEN Raised("TypeError")
    ELSE Ok(None)

\* Money.__lt__
money_lt(a, b) ==
    IF check_same_currency(a, b).kind = "raised" THEN check_same_currency(a, b)
    ELSE Ok(a.minor_units < b.minor_units)

\* Money.__le__
money_le_strict(a, b) ==
    IF check_same_currency(a, b).kind = "raised" THEN check_same_currency(a, b)
    ELSE Ok(a.minor_units < b.minor_units)

money_le(a, b) ==
    IF check_same_currency(a, b).kind = "raised" THEN check_same_currency(a, b)
    ELSE Ok(a.minor_units <= b.minor_units)

\* Money.__gt__
money_gt(a, b) ==
    IF check_same_currency(a, b).kind = "raised" THEN check_same_currency(a, b)
    ELSE Ok(a.minor_units > b.minor_units)

\* Money.__ge__
money_ge(a, b) ==
    IF check_same_currency(a, b).kind = "raised" THEN check_same_currency(a, b)
    ELSE Ok(a.minor_units >= b.minor_units)

----------------------------------------------------------------------------
(* money/core.py: Allocation.  An Allocation is the record of its fields   *)
(* _total, _allocated and _parts; a method returns its outcome and the     *)
(* object as it leaves it.                                                 *)

\* Money.zero(currency) and Money.is_zero
zero(currency) == of_minor(0, currency)
is_zero(m) == m.minor_units = 0

\* Allocation(total)
Allocation(total) ==
    [total |-> total, allocated |-> zero(total.currency), parts |-> <<>>]

\* Allocation.fixed(amount)
fixed(self, amount) ==
    IF amount.currency # self.total.currency
    THEN [out |-> Raised("TypeError"), self |-> self]
    ELSE [out |-> Ok("self"),
          self |-> [self EXCEPT !.parts = Append(@, amount),
                                !.allocated = money_add(@, amount).value]]

\* Allocation.remainder()
allocation_remainder(self) == money_sub(self.total, self.allocated).value

\* Allocation.finalize(): a remainder that is not zero is added to the last
\* part, or becomes the only part; _allocated is left as it was
finalize(self) ==
    LET r == allocation_remainder(self)
        parts == IF is_zero(r) THEN self.parts
                 ELSE IF self.parts # <<>>
                 THEN [self.parts EXCEPT ![Len(self.parts)] = money_add(@, r).value]
                 ELSE Append(self.parts, r)
    IN  [out |-> Ok(parts), self |-> [self EXCEPT !.parts = parts]]

----------------------------------------------------------------------------
(* money/ifx.py: hashing and serialization *)

\* json.dumps(content, sort_keys=True): the canonical text of a dict; a
\* record has no field order, as the sorted keys have none
json_dumps(content) == [json |-> content]

\* hashlib.sha256(text).hexdigest(), injective on the text
sha256(text) == [sha256 |-> text]

\* datetime.isoformat()
isoformat(t) == [iso |-> t]

\* hmac.compare_digest
compare_digest(a, b) == a = b

\* TransactionMetadata.to_dict
metadata_to_dict(md) ==
    [source |-> md.source,
     confidence |-> md.confidence,
     timestamp |-> isoformat(md.timestamp),
     rationale |-> md.rationale,
     epistemic_status |-> md.epistemic_status,
     policy_version |-> md.policy_version,
     session_id |-> md.session_id,
     parent_tx_id |-> md.parent_tx_id]

----------------------------------------------------------------------------
(* money/ifx.py: SignedTransaction *)

DEFAULT_POLICY_VERSION == "KQR-2025-01"

\* SignedTransaction.from_ai_output; tx_id and session_id are the uuid4
\* draws, now is datetime.now(timezone.utc)
from_ai_output(amount, source, confidence, rationale, policy_version, tx_id, session_id, now) ==
    IF ~(0 <= confidence /\ confidence <= 100) THEN Raised("ValueError")
    ELSE Ok([tx_id |-> tx_id,
             amount |-> amount,
             metadata |-> [source |-> source,
                           confidence |-> confidence,
                           timestamp |-> now,
                           rationale |-> rationale,
                           epistemic_status |-> "ai_generated",
                           policy_version |-> policy_version,
                           session_id |-> session_id,
                           parent_tx_id |-> None],
             signature |-> None,
             status |-> "pending",
             rejection_reason |-> None])

\* SignedTransaction.from_human
from_human(amount, source, rationale, policy_version, tx_id, session_id, now) ==
    [tx_id |-> tx_id,
     amount |-> amount,
     metadata |-> [source |-> source,
                   confidence |-> 100,
                   timestamp |-> now,
                   rationale |-> rationale,
                   epistemic_status |-> "fact",
                   policy_version |-> policy_version,
                   session_id |-> session_id,
                   parent_tx_id |-> None],
     signature |-> None,
     status |-> "pending",
     rejection_reason |-> None]

\* the dataclass constructor SignedTransaction(...)
SignedTransaction(tx_id, amount, metadata, signature, status, rejection_reason) ==
    [tx_id |-> tx_id,
     amount |-> amount,
     metadata |-> metadata,
     signature |-> signature,
     status |-> status,
     rejection_reason |-> rejection_reason]

\* the content sign() and verify_signature() hash
signed_content_with_status(tx) ==
    json_dumps([tx_id |-> tx.tx_id,
                amount |-> money_to_dict(tx.amount),
                metadata |-> metadata_to_dict(tx.metadata),
                status |-> tx.status])

signed_content(tx) ==
    json_dumps([tx_id |-> tx.tx_id,
                amount |-> money_to_dict(tx.amount),
                metadata |-> metadata_to_dict(tx.metadata)])

\* SignedTransaction.sign
sign(tx) ==
    [tx_id |-> tx.tx_id,
     amount |-> tx.amount,
     metadata |-> tx.metadata,
     signature |-> Some(sha256(signed_content(tx))),
     status |-> tx.status,
     rejection_reason |-> tx.rejection_reason]

\* SignedTransaction.verify_signature
verify_signature(tx) ==
    IF tx.signature = None THEN FALSE
    ELSE compare_digest(tx.signature[1], sha256(signed_content(tx)))

\* SignedTransaction.admit: no condition on the current status
admit(tx) ==
    Ok([tx_id |-> tx.tx_id,
        amount |-> tx.amount,
        metadata |-> tx.metadata,
        signature |-> tx.signature,
        status |-> "admitted",
        rejection_reason |-> None])

\* SignedTransaction.reject: no condition on the current status
reject(tx, reason) ==
    Ok([tx_id |-> tx.tx_id,
        amount |-> tx.amount,
        metadata |-> tx.metadata,
        signature |-> tx.signature,
        status |-> "rejected",
        rejection_reason |-> Some(reason)])

\* SignedTransaction.execute
execute_unguarded(tx) ==
    Ok([tx_id |-> tx.tx_id,
        amount |-> tx.amount,
        metadata |-> tx.metadata,
        signature |-> tx.signature,
        status |-> "executed",
        rejection_reason |-> None])

execute(tx) ==
    IF tx.status # "admitted" THEN Raised("ValueError")
    ELSE Ok([tx_id |-> tx.tx_id,
             amount |-> tx.amount,
             metadata |-> tx.metadata,
             signature |-> tx.signature,
             status |-> "executed",
             rejection_reason |-> None])

\* SignedTransaction.to_dict
tx_to_dict(tx) ==
    [tx_id |-> tx.tx_id,
     amount |-> money_to_dict(tx.amount),
     metadata |-> metadata_to_dict(tx.metadata),
     signature |-> tx.signature,
     status |-> tx.status,
     rejection_reason |-> tx.rejection_reason]

----------------------------------------------------------------------------
(* money/ifx.py: QualificationPolicy, GateDecision and Gate *)

\* f"{conf:.2f}" for a value in hundredths
fmt_2f(c) ==
    IF c < 0 THEN <<"-">> \o Digits((-c) \div 100, 1) \o <<".">> \o Digits((-c) % 100, 2)
    ELSE Digits(c \div 100, 1) \o <<".">> \o Digits(c % 100, 2)

\* f"{min_conf}": the repr of a float, which drops a trailing zero of the
\* fraction but keeps one digit (0.85, 0.8, 1.0)
fmt_float(c) ==
    LET a == IF c < 0 THEN -c ELSE c
        sgn == IF c < 0 THEN <<"-">> ELSE <<>>
    IN  IF a % 10 = 0
        THEN sgn \o Digits(a \div 100, 1) \o <<".">> \o Digits((a % 100) \div 10, 1)
        ELSE sgn \o Digits(a \div 100, 1) \o <<".">> \o Digits(a % 100, 2)

\* "; ".join(items)
RECURSIVE join(_, _)
join(sep, items) ==
    IF items = <<>> THEN <<>>
    ELSE IF Len(items) = 1 THEN items[1]
    ELSE items[1] \o sep \o join(sep, Tail(items))

\* the result of one check: the labels it adds to checks_passed and to
\* checks_failed, and the human-approval flag
CheckResult(passed, failed, requires_human) ==
    [passed |-> passed, failed |-> failed, requires_human |-> requires_human]

\* the comparison of Gate._check_confidence
confidence_ok_strict(conf, min_conf) == conf > min_conf

confidence_ok(conf, min_conf) == conf >= min_conf

\* Gate._check_confidence
check_confidence(policy, tx) ==
    LET conf == tx.metadata.confidence
        min_conf == policy.min_confidence
    IN  IF confidence_ok(conf, min_conf)
        THEN Ok(CheckResult(
                 <<(<<"confidence_check", ": ">> \o fmt_2f(conf) \o <<" >= ">> \o fmt_float(min_conf))>>,
                 <<>>, FALSE))
        ELSE Ok(CheckResult(
                 <<>>,
                 <<(<<"confidence_check", ": ">> \o fmt_2f(conf) \o <<" < ">>
                       \o fmt_float(min_conf) \o <<" (required)">>)>>,
                 FALSE))

\* Gate._check_amount
check_amount(policy, tx) ==
    LET max_amt == policy.max_amount
    IN  IF max_amt = None
        THEN Ok(CheckResult(<<(<<"amount_check", ": no limit configured">>)>>, <<>>, FALSE))
        ELSE IF tx.amount.currency # max_amt[1].currency
        THEN Ok(CheckResult(
                 <<>>,
                 <<(<<"amount_check", ": currency mismatch (", tx.amount.currency, " vs ",
                      max_amt[1].currency, ")">>)>>,
                 FALSE))
        ELSE IF money_le(tx.amount, max_amt[1]).kind = "raised"
        THEN money_le(tx.amount, max_amt[1])
        ELSE IF money_le(tx.amount, max_amt[1]).value
        THEN Ok(CheckResult(
                 <<(<<"amount_check", ": ">> \o money_repr(tx.amount) \o <<" <= ">>
                       \o money_repr(max_amt[1]))>>,
                 <<>>, FALSE))
        ELSE Ok(CheckResult(
                 <<>>,
                 <<(<<"amount_check", ": ">> \o money_repr(tx.amount) \o <<" > ">>
                       \o money_repr(max_amt[1]) \o <<" (max)">>)>>,
                 FALSE))

\* Gate._check_human_approval: the comparison tx.amount > threshold is
\* evaluated before same_currency is looked at
check_human_approval(policy, tx) ==
    LET threshold == policy.require_human_approval_above
    IN  IF threshold = None
        THEN Ok(CheckResult(<<(<<"human_approval_check", ": not configured">>)>>, <<>>, FALSE))
        ELSE LET same_currency == tx.amount.currency = threshold[1].currency
                 exceeds == money_gt(tx.amount, threshold[1])
             IN  IF exceeds.kind = "raised" THEN exceeds
                 ELSE IF same_currency /\ exceeds.value
                 THEN Ok(CheckResult(
                          <<(<<"human_approval_check", ": required for ">>
                                \o money_repr(tx.amount) \o <<" > ">>
                                \o money_repr(threshold[1]))>>,
                          <<>>, TRUE))
                 ELSE Ok(CheckResult(<<(<<"human_approval_check", ": not required">>)>>,
                                     <<>>, FALSE))

\* Gate._check_source
check_source_blocked_first(policy, tx) ==
    LET source == tx.metadata.source
    IN  IF policy.blocked_sources # None /\ source \in policy.blocked_sources[1]
        THEN Ok(CheckResult(<<>>,
                            <<(<<"source_check", ": '", source, "' is blocked">>)>>,
                            FALSE))
        ELSE IF policy.allowed_sources # None /\ source \notin policy.allowed_sources[1]
        THEN Ok(CheckResult(<<>>,
                            <<(<<"source_check", ": '", source, "' not in allowed list">>)>>,
                            FALSE))
        ELSE Ok(CheckResult(<<(<<"source_check", ": no restrictions">>)>>, <<>>, FALSE))

check_source(policy, tx) ==
    LET source == tx.metadata.source
    IN  IF policy.allowed_sources # None
        THEN IF source \in policy.allowed_sources[1]
             THEN Ok(CheckResult(<<(<<"source_check", ": '", source, "' in allowed list">>)>>,
                                 <<>>, FALSE))
             ELSE Ok(CheckResult(<<>>,
                                 <<(<<"source_check", ": '", source, "' not in allowed list">>)>>,
                                 FALSE))
        ELSE IF policy.blocked_sources # None
        THEN IF source \in policy.blocked_sources[1]
             THEN Ok(CheckResult(<<>>,
                                 <<(<<"source_check", ": '", source, "' is blocked">>)>>,
                                 FALSE))
             ELSE Ok(CheckResult(<<(<<"source_check", ": '", source, "' not blocked">>)>>,
                                 <<>>, FALSE))
        ELSE Ok(CheckResult(<<(<<"source_check", ": no restrictions">>)>>, <<>>, FALSE))

\* a registered custom check, a callable tx -> Optional[str]: the model
\* has two pure ones, named by a string
custom_check(name, tx) ==
    CASE name = "fail" -> Some(<<"blocked by rule">>)
      [] name = "eur_only" ->
            IF tx.amount.currency = "EUR" THEN None ELSE Some(<<"currency is not EUR">>)

\* Gate._run_custom_checks, from index i (1-based) of the registered list
RECURSIVE run_custom_checks_from(_, _, _)
run_custom_checks_from(checks, tx, i) ==
    IF i > Len(checks) THEN CheckResult(<<>>, <<>>, FALSE)
    ELSE LET result == custom_check(checks[i], tx)
             rest == run_custom_checks_from(checks, tx, i + 1)
             label == <<"custom_check_", ToString(i - 1)>>
         IN  IF result = None
             THEN CheckResult(<<(label \o <<": passed">>)>> \o rest.passed, rest.failed, FALSE)
             ELSE CheckResult(rest.passed, <<(label \o <<": ">> \o result[1])>> \o rest.failed, FALSE)

run_custom_checks_once_per_tx(checks, tx) ==
    IF \E i \in 1..Len(r_log) : r_log[i].tx = tx
    THEN Ok(CheckResult(<<>>, <<(<<"custom_check_0", ": ", "seen before">>)>>, FALSE))
    ELSE Ok(run_custom_checks_from(checks, tx, 1))

run_custom_checks(checks, tx) == Ok(run_custom_checks_from(checks, tx, 1))

\* the decision of Gate.evaluate: admitted = len(checks_failed) == 0
admitted_unless_human(checks_failed, requires_human) ==
    Len(checks_failed) = 0 /\ ~requires_human

admitted_of(checks_failed, requires_human) == Len(checks_failed) = 0

\* Gate.evaluate: the five checks in order; an exception of a check leaves
\* evaluate at once
evaluate(policy, checks, tx) ==
    LET c1 == check_confidence(policy, tx)
        c2 == check_amount(policy, tx)
        c3 == check_human_approval(policy, tx)
        c4 == check_source(policy, tx)
        c5 == run_custom_checks(checks, tx)
    IN  IF c1.kind = "raised" THEN c1
        ELSE IF c2.kind = "raised" THEN c2
        ELSE IF c3.kind = "raised" THEN c3
        ELSE IF c4.kind = "raised" THEN c4
        ELSE IF c5.kind = "raised" THEN c5
        ELSE LET checks_passed == c1.value.passed \o c2.value.passed \o c3.value.passed
                                     \o c4.value.passed \o c5.value.passed
                 checks_failed == c1.value.failed \o c2.value.failed
                                     \o c4.value.failed \o c5.value.failed
                 requires_human == c3.value.requires_human
                 admitted == admitted_of(checks_failed, requires_human)
             IN  Ok([admitted |-> admitted,
                     reason |-> IF admitted THEN <<"All checks passed">>
                                ELSE join(<<"; ">>, checks_failed),
                     policy_version |-> policy.version,
                     checks_passed |-> checks_passed,
                     checks_failed |-> checks_failed,
                     requires_human_approval |-> requires_human])

\* GateDecision.to_dict
decision_to_dict(d) ==
    [admitted |-> d.admitted,
     reason |-> d.reason,
     policy_version |-> d.policy_version,
     checks_passed |-> d.checks_passed,
     checks_failed |-> d.checks_failed,
     requires_human_approval |-> d.requires_human_approval]

----------------------------------------------------------------------------
(* money/ifx.py: LedgerEntry and Ledger *)

\* Ledger.MAX_ENTRIES
MAX_ENTRIES == 1000000

\* Ledger._genesis_hash, "0" * 64
GENESIS_HASH == [zeros |-> 64]

\* Ledger.__init__: self._max_entries = max_entries or self.MAX_ENTRIES,
\* where None and 0 are both false
ledger_max_entries(max_entries) ==
    IF max_entries = None \/ max_entries[1] = 0 THEN MAX_ENTRIES ELSE max_entries[1]

\* Ledger._compute_hash
compute_hash(content) == sha256(json_dumps(content))

\* the entry_content dict of append and verify_chain
entry_content(sequence, timestamp, transaction, decision, previous_hash) ==
    [sequence |-> sequence,
     timestamp |-> isoformat(timestamp),
     transaction |-> tx_to_dict(transaction),
     decision |-> IF decision # None THEN Some(decision_to_dict(decision[1])) ELSE None,
     previous_hash |-> previous_hash]

\* Ledger.append: the previous hash of the entry to come
previous_hash_always_genesis(entries) == GENESIS_HASH

previous_hash_for(entries) ==
    IF Len(entries) = 0 THEN GENESIS_HASH ELSE entries[Len(entries)].entry_hash

\* Ledger.append: the entry built for (transaction, decision) at time now
new_entry_hash_of_next_sequence(entries, transaction, decision, now) ==
    [sequence |-> Len(entries),
     timestamp |-> now,
     transaction |-> transaction,
     decision |-> decision,
     previous_hash |-> previous_hash_for(entries),
     entry_hash |-> compute_hash(
         entry_content(Len(entries) + 1, now, transaction, decision,
                       previous_hash_for(entries)))]

new_entry(entries, transaction, decision, now) ==
    LET sequence == Len(entries)
        previous_hash == previous_hash_for(entries)
    IN  [sequence |-> sequence,
         timestamp |-> now,
         transaction |-> transaction,
         decision |-> decision,
         previous_hash |-> previous_hash,
         entry_hash |-> compute_hash(
             entry_content(sequence, now, transaction, decision, previous_hash))]

\* Ledger.append: the call's result and the entries after it
ledger_append_one_over(entries, max_entries, transaction, decision, now) ==
    IF Len(entries) > max_entries
    THEN [out |-> Raised("ValueError"), entries |-> entries]
    ELSE [out |-> Ok(new_entry(entries, transaction, decision, now)),
          entries |-> Append(entries, new_entry(entries, transaction, decision, now))]

ledger_append(entries, max_entries, transaction, decision, now) ==
    IF Len(entries) >= max_entries
    THEN [out |-> Raised("ValueError"), entries |-> entries]
    ELSE [out |-> Ok(new_entry(entries, transaction, decision, now)),
          entries |-> Append(entries, new_entry(entries, transaction, decision, now))]

\* Ledger.verify_chain: the two comparisons made for the entry at index i
\* (1-based here, i - 1 in the code)
entry_checks_prev_only(entries, i) ==
    compare_digest(entries[i].previous_hash,
                   IF i = 1 THEN GENESIS_HASH ELSE entries[i - 1].entry_hash)

entry_checks_hash_only(entries, i) ==
    LET entry == entries[i]
    IN  compare_digest(entry.entry_hash,
                       compute_hash(entry_content(entry.sequence, entry.timestamp,
                                                  entry.transaction, entry.decision,
                                                  entry.previous_hash)))

entry_checks(entries, i) ==
    LET entry == entries[i]
        expected_prev == IF i = 1 THEN GENESIS_HASH ELSE entries[i - 1].entry_hash
        expected_hash == compute_hash(
            entry_content(entry.sequence, entry.timestamp, entry.transaction,
                          entry.decision, entry.previous_hash))
    IN  /\ compare_digest(entry.previous_hash, expected_prev)
        /\ compare_digest(entry.entry_hash, expected_hash)

\* Ledger.verify_chain, the loop from index i on
RECURSIVE verify_chain_from(_, _)
verify_chain_from(entries, i) ==
    IF i > Len(entries) THEN <<TRUE, None>>
    ELSE IF ~entry_checks(entries, i) THEN <<FALSE, Some(i - 1)>>
    ELSE verify_chain_from(entries, i + 1)

verify_chain(entries) == verify_chain_from(entries, 1)

----------------------------------------------------------------------------
(* money/ifx.py: qualify_and_execute *)

\* one entry of the call's event list
Event(ev, arg) == [ev |-> ev, arg |-> arg]

\* what the call leaves behind: its result, the ledger's entries and the
\* appends and callback invocations it made, in order
Outcome(out, entries, events) == [out |-> out, entries |-> entries, events |-> events]

\* the tuple qualify_and_execute returns
Returned(success, transaction, decision) ==
    Ok([success |-> success, transaction |-> transaction, decision |-> decision])

\* the except branch: tx = tx.reject(f"Execution failed: {e}");
\* context.on_reject(str(e)); return (True, tx, decision)
execution_failed_silently(tx, decision, entries, events, message, env) ==
    Outcome(Returned(TRUE, reject(tx, <<"Execution failed: ">> \o message).value, decision),
            entries, events)

execution_failed(tx, decision, entries, events, message, env) ==
    LET rejected == reject(tx, <<"Execution failed: ">> \o message).value
        called == events \o <<Event("on_reject", message)>>
    IN  IF env.on_reject.kind = "raised"
        THEN Outcome(Raised(env.on_reject.error), entries, called)
        ELSE Outcome(Returned(TRUE, rejected, decision), entries, called)

\* the branch taken when decision.admitted
admitted_branch(tx, decision, entries, max_entries, env) ==
    LET admitted == admit(tx).value
        appended == ledger_append(entries, max_entries, admitted, Some(decision), env.now_entry)
        events == <<Event("append", admitted.status), Event("on_execute", admitted.amount)>>
    IN  IF appended.out.kind = "raised"
        THEN Outcome(appended.out, appended.entries, <<>>)
        ELSE IF env.on_execute.kind = "raised"
        THEN execution_failed(admitted, decision, appended.entries, events,
                              env.on_execute.message, env)
        ELSE IF execute(admitted).kind = "raised"
        THEN execution_failed(admitted, decision, appended.entries, events,
                              <<"Cannot execute transaction in status '", admitted.status, "'">>,
                              env)
        ELSE Outcome(Returned(TRUE, execute(admitted).value, decision),
                     appended.entries, events)

\* the code after the if: the gate rejected
rejected_branch_callback_first(tx, decision, entries, max_entries, env) ==
    LET rejected == reject(tx, decision.reason).value
        appended == ledger_append(entries, max_entries, rejected, Some(decision), env.now_entry)
        called == <<Event("on_reject", decision.reason)>>
    IN  IF env.on_reject.kind = "raised"
        THEN Outcome(Raised(env.on_reject.error), entries, called)
        ELSE IF appended.out.kind = "raised"
        THEN Outcome(appended.out, appended.entries, called)
        ELSE Outcome(Returned(FALSE, rejected, decision), appended.entries,
                     called \o <<Event("append", rejected.status)>>)

rejected_branch(tx, decision, entries, max_entries, env) ==
    LET rejected == reject(tx, decision.reason).value
        appended == ledger_append(entries, max_entries, rejected, Some(decision), env.now_entry)
        events == <<Event("append", rejected.status), Event("on_reject", decision.reason)>>
    IN  IF appended.out.kind = "raised"
        THEN Outcome(appended.out, appended.entries, <<>>)
        ELSE IF env.on_reject.kind = "raised"
        THEN Outcome(Raised(env.on_reject.error), appended.entries, events)
        ELSE Outcome(Returned(FALSE, rejected, decision), appended.entries, events)

\* qualify_and_execute(amount, source, confidence, context, rationale) on a
\* context holding policy and a ledger of (entries, max_entries); env holds
\* what the surroundings decide: the uuid4 draws, the two clock readings and
\* how the two injected callbacks behave
qualify_and_execute(amount, source, confidence, rationale, policy, entries, max_entries, env) ==
    LET made == from_ai_output(amount, source, confidence, rationale, policy.version,
                               env.tx_id, env.session_id, env.now_tx)
    IN  IF made.kind = "raised" THEN Outcome(made, entries, <<>>)
        ELSE LET tx == sign(made.value)
                 decided == evaluate(policy, <<>>, tx)
             IN  IF decided.kind = "raised" THEN Outcome(decided, entries, <<>>)
                 ELSE IF decided.value.admitted
                 THEN admitted_branch(tx, decided.value, entries, max_entries, env)
                 ELSE rejected_branch(tx, decided.value, entries, max_entries, env)

----------------------------------------------------------------------------
(* Bounds and input sets of the model *)

MaxUnits == 12      \* distribute: minor units range over -MaxUnits..MaxUnits
MaxParts == 6       \* distribute: n ranges over 0..MaxParts
MaxChecks == 2      \* gate: at most this many custom checks are registered
MaxLedger == 3      \* ledger: the model stops appending at this length
MaxCap == 2         \* ledger: Ledger(max_entries=k) for k in 0..MaxCap, and Ledger()
MaxCalls == 2       \* workflow: the model stops calling at this ledger length
MaxEvals == 3       \* gate: evaluations logged between two changes of the check list
MaxWeights == 3     \* distribute_weighted: at most this many weights
MaxQuarters == 14   \* rounding: the floats are n / 4 for n in -MaxQuarters..MaxQuarters
MaxOperand == 3     \* arithmetic: operands range over -MaxOperand..MaxOperand
MaxTotal == 4       \* allocation: the total ranges over 0..MaxTotal minor units
MaxFixed == 2       \* allocation: fixed() is called while fewer parts than this are held
MaxFinalize == 2    \* allocation: at most this many finalize() calls

DistCurrencies == {"EUR", "JPY"}

Sources == {"model-a", "model-b"}
Confidences == {70, 85, 92}
Amounts == {of_minor(10000, "EUR"), of_minor(700000, "EUR"), of_minor(10000, "USD")}
Reasons == {<<"Confidence too low">>, <<"manual review">>}
CheckNames == {"eur_only", "fail"}

\* pending, unsigned transactions as from_ai_output and from_human build them
PendingTxs ==
    {from_ai_output(a, src, c, None, DEFAULT_POLICY_VERSION, "tx-1", "session-1", 1).value :
        a \in Amounts, src \in Sources, c \in Confidences}
    \cup {from_human(a, "human", Some(<<"Manual entry">>), DEFAULT_POLICY_VERSION,
                     "tx-2", "session-1", 1) : a \in Amounts}

\* QualificationPolicy(...)
Policy(min_confidence, max_amount, threshold, allowed, blocked) ==
    [min_confidence |-> min_confidence,
     max_amount |-> max_amount,
     require_human_approval_above |-> threshold,
     allowed_sources |-> allowed,
     blocked_sources |-> blocked,
     version |-> DEFAULT_POLICY_VERSION,
     name |-> "default"]

Policies ==
    {Policy(mc, ma, th, al, bl) :
        mc \in {85},
        ma \in {None, Some(of_minor(500000, "EUR")), Some(of_minor(700000, "EUR"))},
        th \in {None, Some(of_minor(500000, "EUR")), Some(of_minor(5000, "USD"))},
        al \in {None, Some({}), Some({"model-a"})},
        bl \in {None, Some({"model-a"})}}

----------------------------------------------------------------------------
(* The state of each component while another component's specification runs *)

DistIdle ==
    /\ d_m = of_minor(0, "EUR")
    /\ d_n = 0
    /\ d_out = NoCall

TxIdle ==
    /\ t_recv = from_human(of_minor(0, "EUR"), "human", None, DEFAULT_POLICY_VERSION,
                           "tx-0", "session-0", 0)
    /\ t_op = "init"
    /\ t_out = NoCall

GateIdle ==
    /\ g_policy = Policy(85, None, None, None, None)
    /\ g_checks = <<>>
    /\ g_tx = None
    /\ g_out = NoCall

LedgerIdle ==
    /\ l_arg = None
    /\ l_max = ledger_max_entries(None)
    /\ l_entries = <<>>
    /\ l_op = "init"
    /\ l_out = NoCall
    /\ l_tamper = None

WfIdle ==
    /\ w_policy = Policy(85, None, None, None, None)
    /\ w_in = None
    /\ w_out = NoCall
    /\ w_events = <<>>

ReplayIdle == r_log = <<>>

AllocIdle ==
    /\ a_total = of_minor(0, "EUR")
    /\ a_allocated = of_minor(0, "EUR")
    /\ a_parts = <<>>
    /\ a_op = "none"
    /\ a_out = NoCall
    /\ a_finalized = 0

MoneyIdle ==
    /\ m_recv = of_minor(0, "EUR")
    /\ m_op = "none"
    /\ m_args = [arg |-> 0, rounding |-> "half_even"]
    /\ m_out = NoCall

----------------------------------------------------------------------------
(* Specification SpecDistribute: Money.distribute on bounded inputs *)

\* the inputs: small amounts and part counts, the challenge case
\* Money.euro(2026).distribute(12), and one n above MAX_DISTRIBUTION_PARTS
DistInit ==
    /\ d_m \in {of_minor(u, c) : u \in -MaxUnits..MaxUnits, c \in DistCurrencies}
                \cup {euro(2026)}
    /\ d_n \in 0..MaxParts \cup {12, MAX_DISTRIBUTION_PARTS + 1}
    /\ d_out = NoCall

\* parts = m.distribute(n)
Distribute ==
    /\ d_out = NoCall
    /\ d_out' = distribute(d_m, d_n)
    /\ UNCHANGED <<d_m, d_n, txVars, gateVars, ledgerVars, wfVars, replayVars, moneyVars, allocVars>>

InitDistribute == DistInit /\ TxIdle /\ GateIdle /\ LedgerIdle /\ WfIdle /\ ReplayIdle /\ MoneyIdle /\ AllocIdle
NextDistribute == Distribute
SpecDistribute == InitDistribute /\ [][NextDistribute]_vars

----------------------------------------------------------------------------
(* Specification SpecMoney: one call of distribute_weighted, add_vat,      *)
(* extract_vat or apply_discount on a Money, on bounded inputs             *)

WeightValues == {0, 1, 2}

\* lists of up to n weights
RECURSIVE WeightLists(_)
WeightLists(n) ==
    IF n = 0 THEN {<<>>}
    ELSE WeightLists(n - 1)
         \cup {Append(ws, w) : ws \in {l \in WeightLists(n - 1) : Len(l) = n - 1},
                                w \in WeightValues}

\* the lists passed as weights: the empty list, weights that are all zero
\* and one list with a negative weight among them
Weights == WeightLists(MaxWeights) \cup {<<2, -1>>}

\* rate_percent and percent
Rates == {-100, 0, 10, 22, 50}

MoneyInit ==
    /\ m_recv \in {of_minor(u, "EUR") : u \in -MaxUnits..MaxUnits}
    /\ m_op = "none"
    /\ m_args = [arg |-> 0, rounding |-> "half_even"]
    /\ m_out = NoCall

\* parts = m.distribute_weighted(weights, rounding)
DistributeWeighted ==
    /\ m_op = "none"
    /\ \E weights \in Weights, rounding \in RoundingMode :
           \E raw_amounts \in RawAmounts(m_recv, weights) :
               /\ m_op' = "distribute_weighted"
               /\ m_args' = [arg |-> weights, rounding |-> rounding]
               /\ m_out' = distribute_weighted(m_recv, weights, rounding, raw_amounts)
               /\ UNCHANGED <<m_recv, distVars, txVars, gateVars, ledgerVars, wfVars, replayVars, allocVars>>

\* net, vat, gross = m.add_vat(rate_percent, rounding)
AddVat ==
    /\ m_op = "none"
    /\ \E rate_percent \in Rates, rounding \in RoundingMode :
           \E vat_float \in float_times_quotient(m_recv.minor_units, rate_percent, 100) :
               /\ m_op' = "add_vat"
               /\ m_args' = [arg |-> rate_percent, rounding |-> rounding]
               /\ m_out' = add_vat(m_recv, rate_percent, rounding, vat_float)
               /\ UNCHANGED <<m_recv, distVars, txVars, gateVars, ledgerVars, wfVars, replayVars, allocVars>>

\* net, vat, gross = m.extract_vat(rate_percent, rounding)
ExtractVat ==
    /\ m_op = "none"
    /\ \E rate_percent \in Rates, rounding \in RoundingMode :
           \E net_float \in IF 100 + rate_percent = 0 THEN {Rat(0, 1)}
                             ELSE float_over_one_plus(m_recv.minor_units, rate_percent, 100) :
               /\ m_op' = "extract_vat"
               /\ m_args' = [arg |-> rate_percent, rounding |-> rounding]
               /\ m_out' = extract_vat(m_recv, rate_percent, rounding, net_float)
               /\ UNCHANGED <<m_recv, distVars, txVars, gateVars, ledgerVars, wfVars, replayVars, allocVars>>

\* discount, discounted = m.apply_discount(percent, rounding)
ApplyDiscount ==
    /\ m_op = "none"
    /\ \E percent \in Rates, rounding \in RoundingMode :
           \E discount_float \in float_times_quotient(m_recv.minor_units, percent, 100) :
               /\ m_op' = "apply_discount"
               /\ m_args' = [arg |-> percent, rounding |-> rounding]
               /\ m_out' = apply_discount(m_recv, percent, rounding, discount_float)
               /\ UNCHANGED <<m_recv, distVars, txVars, gateVars, ledgerVars, wfVars, replayVars, allocVars>>

InitMoney == DistIdle /\ TxIdle /\ GateIdle /\ LedgerIdle /\ WfIdle /\ ReplayIdle /\ MoneyInit /\ AllocIdle
NextMoney == DistributeWeighted \/ AddVat \/ ExtractVat \/ ApplyDiscount
SpecMoney == InitMoney /\ [][NextMoney]_vars

----------------------------------------------------------------------------
(* Specification SpecRounding: one call of _apply_rounding or of           *)
(* Money.from_float on a float that is a multiple of 1/4, so that the      *)
(* integers, the ties k + 1/2 and values on either side of a tie all occur *)

\* the floats passed: n / 4, exact in binary64
FloatValues == {Rat(n, 4) : n \in -MaxQuarters..MaxQuarters}

\* Money.from_float(value, currency, rounding); the product of a multiple
\* of 1/4 and the multiplier is exact
from_float(value, currency, rounding) ==
    LET minor_float == Rat(value.num * multiplier(currency), value.den)
        minor_int == apply_rounding(minor_float, rounding)
    IN  of_minor(minor_int, currency)

\* result = _apply_rounding(value, mode)
ApplyRounding ==
    /\ m_op = "none"
    /\ \E value \in FloatValues, mode \in RoundingMode :
           /\ m_op' = "_apply_rounding"
           /\ m_args' = [arg |-> value, rounding |-> mode]
           /\ m_out' = Ok(apply_rounding(value, mode))
           /\ UNCHANGED <<m_recv, distVars, txVars, gateVars, ledgerVars, wfVars, replayVars, allocVars>>

\* result = Money.from_float(value, currency, rounding)
FromFloat ==
    /\ m_op = "none"
    /\ \E value \in FloatValues, currency \in DistCurrencies, rounding \in RoundingMode :
           /\ m_op' = "from_float"
           /\ m_args' = [arg |-> <<value, currency>>, rounding |-> rounding]
           /\ m_out' = Ok(from_float(value, currency, rounding))
           /\ UNCHANGED <<m_recv, distVars, txVars, gateVars, ledgerVars, wfVars, replayVars, allocVars>>

InitRounding == DistIdle /\ TxIdle /\ GateIdle /\ LedgerIdle /\ WfIdle /\ ReplayIdle /\ MoneyIdle /\ AllocIdle
NextRounding == ApplyRounding \/ FromFloat
SpecRounding == InitRounding /\ [][NextRounding]_vars

----------------------------------------------------------------------------
(* Specification SpecArith: one arithmetic or comparison operator applied  *)
(* to a Money and an operand: a Money of the same or of another currency,  *)
(* an int or a float                                                       *)

ArithCurrencies == {"EUR", "JPY"}

Operands ==
    {of_minor(u, c) : u \in -MaxOperand..MaxOperand, c \in ArithCurrencies}
    \cup {[int |-> n] : n \in -MaxOperand..MaxOperand}
    \cup {[float |-> Rat(n, 2)] : n \in -MaxOperand..MaxOperand}

ArithInit ==
    /\ m_recv \in {of_minor(u, c) : u \in -MaxOperand..MaxOperand, c \in ArithCurrencies}
    /\ m_op = "none"
    /\ m_args = [arg |-> 0, rounding |-> "half_even"]
    /\ m_out = NoCall

\* records the operator, its right operand and its outcome
Applied(op, other, out) ==
    /\ m_op' = op
    /\ m_args' = [arg |-> other, rounding |-> "half_even"]
    /\ m_out' = out
    /\ UNCHANGED <<m_recv, distVars, txVars, gateVars, ledgerVars, wfVars, replayVars, allocVars>>

\* m + other
Add == m_op = "none" /\ \E other \in Operands : Applied("add", other, money_add(m_recv, other))
\* m - other
Sub == m_op = "none" /\ \E other \in Operands : Applied("sub", other, money_sub(m_recv, other))
\* m * other
Mul == m_op = "none" /\ \E other \in Operands : Applied("mul", other, money_mul(m_recv, other))
\* m == other
Eq == m_op = "none" /\ \E other \in Operands : Applied("eq", other, Ok(money_eq(m_recv, other)))
\* m < other
Lt == m_op = "none" /\ \E other \in Operands : Applied("lt", other, money_lt(m_recv, other))
\* m <= other
Le == m_op = "none" /\ \E other \in Operands : Applied("le", other, money_le(m_recv, other))
\* m > other
Gt == m_op = "none" /\ \E other \in Operands : Applied("gt", other, money_gt(m_recv, other))
\* m >= other
Ge == m_op = "none" /\ \E other \in Operands : Applied("ge", other, money_ge(m_recv, other))

InitArith == DistIdle /\ TxIdle /\ GateIdle /\ LedgerIdle /\ WfIdle /\ ReplayIdle /\ ArithInit /\ AllocIdle
NextArith == Add \/ Sub \/ Mul \/ Eq \/ Lt \/ Le \/ Gt \/ Ge
SpecArith == InitArith /\ [][NextArith]_vars

----------------------------------------------------------------------------
(* Specification SpecAlloc: one Allocation over a total, with fixed(),     *)
(* remainder() and finalize() called in any order                          *)

\* the amounts passed to fixed(): of the total's currency and of another,
\* a negative one among them
FixedAmounts ==
    {of_minor(u, "EUR") : u \in {-1, 1, 2, 3}} \cup {of_minor(1, "JPY")}

\* the object the variables hold
AllocHeld == [total |-> a_total, allocated |-> a_allocated, parts |-> a_parts]

\* a = Allocation(total)
AllocInit ==
    /\ a_total \in {of_minor(u, "EUR") : u \in 0..MaxTotal}
    /\ a_allocated = Allocation(a_total).allocated
    /\ a_parts = Allocation(a_total).parts
    /\ a_op = "none"
    /\ a_out = NoCall
    /\ a_finalized = 0

\* the state after a method returned res
AllocAfter(op, res) ==
    /\ a_op' = op
    /\ a_out' = res.out
    /\ a_total' = res.self.total
    /\ a_allocated' = res.self.allocated
    /\ a_parts' = res.self.parts

\* a.fixed(amount)
AllocFixed ==
    /\ Len(a_parts) < MaxFixed
    /\ \E amount \in FixedAmounts : AllocAfter("fixed", fixed(AllocHeld, amount))
    /\ UNCHANGED <<a_finalized, distVars, txVars, gateVars, ledgerVars, wfVars, replayVars, moneyVars>>

\* a.remainder()
AllocRemainder ==
    /\ AllocAfter("remainder", [out |-> Ok(allocation_remainder(AllocHeld)), self |-> AllocHeld])
    /\ UNCHANGED <<a_finalized, distVars, txVars, gateVars, ledgerVars, wfVars, replayVars, moneyVars>>

\* parts = a.finalize()
AllocFinalize ==
    /\ a_finalized < MaxFinalize
    /\ AllocAfter("finalize", finalize(AllocHeld))
    /\ a_finalized' = a_finalized + 1
    /\ UNCHANGED <<distVars, txVars, gateVars, ledgerVars, wfVars, replayVars, moneyVars>>

InitAlloc == DistIdle /\ TxIdle /\ GateIdle /\ LedgerIdle /\ WfIdle /\ ReplayIdle /\ MoneyIdle /\ AllocInit
NextAlloc == AllocFixed \/ AllocRemainder \/ AllocFinalize
SpecAlloc == InitAlloc /\ [][NextAlloc]_vars

----------------------------------------------------------------------------
(* Specification SpecTx: the methods of one SignedTransaction, each called *)
(* on the value the caller holds: the result of the last call that         *)
(* returned a transaction                                                  *)

TxInit ==
    /\ t_recv \in PendingTxs
    /\ t_op = "init"
    /\ t_out = NoCall

\* the transaction the caller holds
TxHeld == IF t_out.kind = "ok" THEN t_out.value ELSE t_recv

\* tx = tx.sign()
TxSign ==
    /\ t_recv' = TxHeld
    /\ t_op' = "sign"
    /\ t_out' = Ok(sign(TxHeld))
    /\ UNCHANGED <<distVars, gateVars, ledgerVars, wfVars, replayVars, moneyVars, allocVars>>

\* tx = tx.admit()
TxAdmit ==
    /\ t_recv' = TxHeld
    /\ t_op' = "admit"
    /\ t_out' = admit(TxHeld)
    /\ UNCHANGED <<distVars, gateVars, ledgerVars, wfVars, replayVars, moneyVars, allocVars>>

\* tx = tx.reject(reason)
TxReject ==
    \E reason \in Reasons :
        /\ t_recv' = TxHeld
        /\ t_op' = "reject"
        /\ t_out' = reject(TxHeld, reason)
        /\ UNCHANGED <<distVars, gateVars, ledgerVars, wfVars, replayVars, moneyVars, allocVars>>

\* tx = tx.execute()
TxExecute ==
    /\ t_recv' = TxHeld
    /\ t_op' = "execute"
    /\ t_out' = execute(TxHeld)
    /\ UNCHANGED <<distVars, gateVars, ledgerVars, wfVars, replayVars, moneyVars, allocVars>>

InitTx == DistIdle /\ TxInit /\ GateIdle /\ LedgerIdle /\ WfIdle /\ ReplayIdle /\ MoneyIdle /\ AllocIdle
NextTx == TxSign \/ TxAdmit \/ TxReject \/ TxExecute
SpecTx == InitTx /\ [][NextTx]_vars

----------------------------------------------------------------------------
(* Specification SpecForge: the methods of SpecTx, and transactions built  *)
(* with the constructor around the signature of the transaction held       *)

ForgeIds == {"tx-1", "tx-2"}
ForgeAmounts == {of_minor(10000, "EUR"), of_minor(99900, "EUR")}
ForgeMetadata ==
    {from_ai_output(of_minor(10000, "EUR"), src, 90, None, DEFAULT_POLICY_VERSION,
                    "tx-1", "session-1", 1).value.metadata : src \in Sources}

ForgeInit ==
    /\ t_recv \in {SignedTransaction(id, a, md, None, "pending", None) :
                      id \in ForgeIds, a \in ForgeAmounts, md \in ForgeMetadata}
    /\ t_op = "init"
    /\ t_out = NoCall

\* tx = SignedTransaction(tx_id=..., amount=..., metadata=...,
\*                        signature=tx.signature, status=tx.status)
TxConstruct ==
    \E id \in ForgeIds, a \in ForgeAmounts, md \in ForgeMetadata :
        /\ t_recv' = TxHeld
        /\ t_op' = "construct"
        /\ t_out' = Ok(SignedTransaction(id, a, md, TxHeld.signature, TxHeld.status, None))
        /\ UNCHANGED <<distVars, gateVars, ledgerVars, wfVars, replayVars, moneyVars, allocVars>>

InitForge == DistIdle /\ ForgeInit /\ GateIdle /\ LedgerIdle /\ WfIdle /\ ReplayIdle /\ MoneyIdle /\ AllocIdle
NextForge == TxSign \/ TxAdmit \/ TxReject \/ TxExecute \/ TxConstruct
SpecForge == InitForge /\ [][NextForge]_vars

----------------------------------------------------------------------------
(* Specification SpecGate: one Gate, its add_check and evaluate *)

GateInit ==
    /\ g_policy \in Policies
    /\ g_checks = <<>>
    /\ g_tx = None
    /\ g_out = NoCall

GateTxs == {sign(tx) : tx \in {p \in PendingTxs : p.tx_id = "tx-1"}}

\* gate.add_check(check)
GateAddCheck ==
    \E name \in CheckNames :
        /\ Len(g_checks) < MaxChecks
        /\ g_checks' = Append(g_checks, name)
        /\ UNCHANGED <<g_policy, g_tx, g_out, distVars, txVars, ledgerVars, wfVars, replayVars, moneyVars, allocVars>>

\* decision = gate.evaluate(tx)
GateEvaluate ==
    \E tx \in GateTxs :
        /\ g_tx' = Some(tx)
        /\ g_out' = evaluate(g_policy, g_checks, tx)
        /\ UNCHANGED <<g_policy, g_checks, distVars, txVars, ledgerVars, wfVars, replayVars, moneyVars, allocVars>>

InitGate == DistIdle /\ TxIdle /\ GateInit /\ LedgerIdle /\ WfIdle /\ ReplayIdle /\ MoneyIdle /\ AllocIdle
NextGate == GateAddCheck \/ GateEvaluate
SpecGate == InitGate /\ [][NextGate]_vars

----------------------------------------------------------------------------
(* Specification SpecReplay: one Gate evaluating transactions again and    *)
(* again; r_log keeps every evaluation made since the check list changed   *)

ReplayPolicies ==
    {Policy(85, Some(of_minor(500000, "EUR")), Some(of_minor(500000, "EUR")),
            None, Some({"model-b"})),
     Policy(85, None, Some(of_minor(5000, "USD")), Some({"model-a"}), None)}

ReplayTxs ==
    {sign(from_ai_output(of_minor(10000, "EUR"), "model-a", 92, None,
                         DEFAULT_POLICY_VERSION, "tx-1", "session-1", 1).value),
     sign(from_ai_output(of_minor(700000, "EUR"), "model-b", 70, None,
                         DEFAULT_POLICY_VERSION, "tx-2", "session-1", 1).value),
     sign(from_ai_output(of_minor(10000, "USD"), "model-a", 85, None,
                         DEFAULT_POLICY_VERSION, "tx-3", "session-1", 1).value)}

ReplayInit ==
    /\ g_policy \in ReplayPolicies
    /\ g_checks = <<>>
    /\ g_tx = None
    /\ g_out = NoCall
    /\ r_log = <<>>

\* gate.add_check(check)
ReplayAddCheck ==
    \E name \in CheckNames :
        /\ Len(g_checks) < MaxChecks
        /\ g_checks' = Append(g_checks, name)
        /\ r_log' = <<>>
        /\ UNCHANGED <<g_policy, g_tx, g_out, distVars, txVars, ledgerVars, wfVars, moneyVars, allocVars>>

\* decision = gate.evaluate(tx)
ReplayEvaluate ==
    \E tx \in ReplayTxs :
        /\ Len(r_log) < MaxEvals
        /\ g_tx' = Some(tx)
        /\ g_out' = evaluate(g_policy, g_checks, tx)
        /\ r_log' = Append(r_log, [tx |-> tx, out |-> evaluate(g_policy, g_checks, tx)])
        /\ UNCHANGED <<g_policy, g_checks, distVars, txVars, ledgerVars, wfVars, moneyVars, allocVars>>

InitReplay == DistIdle /\ TxIdle /\ ReplayInit /\ LedgerIdle /\ WfIdle /\ MoneyIdle /\ AllocIdle
NextReplay == ReplayAddCheck \/ ReplayEvaluate
SpecReplay == InitReplay /\ [][NextReplay]_vars

----------------------------------------------------------------------------
(* Specification SpecLedger: one Ledger written only through append()      *)
(* Specification SpecTamper: the same, and one stored field of one entry   *)
(* altered behind the API                                                  *)

LedgerArgs == {None} \cup {Some(k) : k \in 0..MaxCap}

LedgerInit ==
    /\ l_arg \in LedgerArgs
    /\ l_max = ledger_max_entries(l_arg)
    /\ l_entries = <<>>
    /\ l_op = "init"
    /\ l_out = NoCall
    /\ l_tamper = None

LedgerTxs ==
    {admit(sign(from_ai_output(of_minor(700000, "EUR"), "model-a", 92, None,
                               DEFAULT_POLICY_VERSION, "tx-1", "session-1", 1).value)).value,
     reject(sign(from_ai_output(of_minor(10000, "EUR"), "model-b", 70, None,
                                DEFAULT_POLICY_VERSION, "tx-2", "session-1", 1).value),
            <<"Confidence too low">>).value}

\* the decision of a gate on tx
DecisionOn(tx) ==
    evaluate(Policy(85, None, Some(of_minor(500000, "EUR")), None, None), <<>>, tx).value

LedgerDecisions == {None} \cup {Some(DecisionOn(tx)) : tx \in LedgerTxs}

\* datetime.now(timezone.utc) in append: the clock ticks once per entry
LedgerNow(entries) == Len(entries) + 1

\* entry = ledger.append(transaction, decision)
LedgerAppend ==
    \E tx \in LedgerTxs :
        \E decision \in {None, Some(DecisionOn(tx))} :
            LET appended == ledger_append(l_entries, l_max, tx, decision, LedgerNow(l_entries))
            IN  /\ l_tamper = None
                /\ Len(l_entries) < MaxLedger
                /\ l_entries' = appended.entries
                /\ l_out' = appended.out
                /\ l_op' = "append"
                /\ UNCHANGED <<l_arg, l_max, l_tamper, distVars, txVars, gateVars, wfVars, replayVars, moneyVars, allocVars>>

\* ok, first_invalid = ledger.verify_chain()
LedgerVerify ==
    /\ l_out' = Ok(verify_chain(l_entries))
    /\ l_op' = "verify_chain"
    /\ UNCHANGED <<l_arg, l_max, l_entries, l_tamper, distVars, txVars, gateVars, wfVars, replayVars, moneyVars, allocVars>>

\* a hash that no entry of the ledger has
ForgedHash ==
    compute_hash(entry_content(0, 0, CHOOSE tx \in LedgerTxs : TRUE, None, GENESIS_HASH))

\* the values a stored field may be overwritten with
TamperValues(field) ==
    CASE field = "sequence" -> 0..MaxLedger
      [] field = "timestamp" -> 0..MaxLedger
      [] field = "transaction" ->
            LedgerTxs
            \cup {[tx EXCEPT !.amount = of_minor(999900, "EUR")] : tx \in LedgerTxs}
            \cup {[tx EXCEPT !.status = "executed"] : tx \in LedgerTxs}
      [] field = "decision" -> LedgerDecisions
      [] field = "previous_hash" ->
            {GENESIS_HASH, ForgedHash} \cup {l_entries[i].entry_hash : i \in 1..Len(l_entries)}
      [] field = "entry_hash" ->
            {GENESIS_HASH, ForgedHash} \cup {l_entries[i].entry_hash : i \in 1..Len(l_entries)}

EntryFields == {"sequence", "timestamp", "transaction", "decision", "previous_hash", "entry_hash"}

\* ledger._entries[k].<field> = value, once, with another value than stored
LedgerTamper ==
    \E k \in 1..Len(l_entries), field \in EntryFields :
        \E value \in TamperValues(field) :
            /\ l_tamper = None
            /\ value # l_entries[k][field]
            /\ l_entries' = [l_entries EXCEPT ![k] = [@ EXCEPT ![field] = value]]
            /\ l_tamper' = Some(k - 1)
            /\ l_op' = "tamper"
            /\ l_out' = NoCall
            /\ UNCHANGED <<l_arg, l_max, distVars, txVars, gateVars, wfVars, replayVars, moneyVars, allocVars>>

InitLedger == DistIdle /\ TxIdle /\ GateIdle /\ LedgerInit /\ WfIdle /\ ReplayIdle /\ MoneyIdle /\ AllocIdle
NextLedger == LedgerAppend \/ LedgerVerify
SpecLedger == InitLedger /\ [][NextLedger]_vars

NextTamper == LedgerAppend \/ LedgerTamper \/ LedgerVerify
SpecTamper == InitLedger /\ [][NextTamper]_vars

\* the fields of an entry that its hash covers
ContentFields == {"sequence", "timestamp", "transaction", "decision", "previous_hash"}

\* the entry with its entry_hash recomputed from its content, as append and
\* verify_chain compute it
rehashed(entry) ==
    [entry EXCEPT !.entry_hash =
        compute_hash(entry_content(entry.sequence, entry.timestamp, entry.transaction,
                                   entry.decision, entry.previous_hash))]

\* ledger._entries[k].<field> = value, once, with another value than stored,
\* and then ledger._entries[k].entry_hash = the hash of the altered content
LedgerRehash ==
    /\ l_tamper = None
    /\ \E k \in 1..Len(l_entries), field \in ContentFields :
           \E value \in TamperValues(field) :
               /\ value # l_entries[k][field]
               /\ l_entries' = [l_entries EXCEPT ![k] = rehashed([@ EXCEPT ![field] = value])]
               /\ l_tamper' = Some(k - 1)
               /\ l_op' = "rehash"
               /\ l_out' = NoCall
               /\ UNCHANGED <<l_arg, l_max, distVars, txVars, gateVars, wfVars, replayVars, moneyVars, allocVars>>

NextRehash == LedgerAppend \/ LedgerRehash \/ LedgerVerify
SpecRehash == InitLedger /\ [][NextRehash]_vars

----------------------------------------------------------------------------
(* Specification SpecWorkflow: qualify_and_execute calls on one context *)

WfPolicies ==
    {Policy(85, None, Some(of_minor(500000, "EUR")), None, None),
     Policy(85, None, None, None, None)}

WfAmounts == {of_minor(700000, "EUR"), of_minor(10000, "USD")}
WfConfidences == {70, 92, 150}

\* how an injected callback behaves when called
CallbackOk == [kind |-> "ok"]
CallbackRaises == [kind |-> "raised", error |-> "RuntimeError", message |-> <<"payment system down">>]
CallbackBehaviours == {CallbackOk, CallbackRaises}

WfInit ==
    /\ w_policy \in WfPolicies
    /\ w_in = None
    /\ w_out = NoCall
    /\ w_events = <<>>

\* success, tx, decision = qualify_and_execute(amount, source, confidence, context)
WfQualifyAndExecute ==
    \E amount \in WfAmounts, confidence \in WfConfidences,
       on_execute \in CallbackBehaviours, on_reject \in CallbackBehaviours :
        LET env == [tx_id |-> "tx-1", session_id |-> "session-1",
                    now_tx |-> LedgerNow(l_entries), now_entry |-> LedgerNow(l_entries),
                    on_execute |-> on_execute, on_reject |-> on_reject]
            done == qualify_and_execute(amount, "model-a", confidence, None, w_policy,
                                        l_entries, l_max, env)
        IN  /\ Len(l_entries) < MaxCalls
            /\ w_in' = Some([amount |-> amount, confidence |-> confidence,
                             on_execute |-> on_execute, on_reject |-> on_reject,
                             entries |-> l_entries])
            /\ w_out' = done.out
            /\ w_events' = done.events
            /\ l_entries' = done.entries
            /\ l_op' = "qualify_and_execute"
            /\ UNCHANGED <<w_policy, l_arg, l_max, l_out, l_tamper, distVars, txVars, gateVars, replayVars, moneyVars, allocVars>>

InitWorkflow == DistIdle /\ TxIdle /\ GateIdle /\ LedgerInit /\ WfInit /\ ReplayIdle /\ MoneyIdle /\ AllocIdle
NextWorkflow == WfQualifyAndExecute
SpecWorkflow == InitWorkflow /\ [][NextWorkflow]_vars

----------------------------------------------------------------------------
(* Claims *)

\* C1: for every Money m (positive, zero or negative) and every n with
\* 1 <= n <= 10000, m.distribute(n) returns exactly n Money values of m's
\* currency whose minor units sum to exactly m's minor units.
C1_DistributeSumAndLength ==
    (d_out # NoCall /\ 1 <= d_n /\ d_n <= MAX_DISTRIBUTION_PARTS) =>
        /\ d_out.kind = "ok"
        /\ Len(d_out.value) = d_n
        /\ \A i \in 1..Len(d_out.value) : d_out.value[i].currency = d_m.currency
        /\ SumSeq([i \in 1..Len(d_out.value) |-> d_out.value[i].minor_units])
              = d_m.minor_units

\* a negative amount split into parts that do not divide it evenly
C1_Witness ==
    /\ d_out.kind = "ok"
    /\ d_m.minor_units < 0
    /\ d_n > 1
    /\ d_m.minor_units % d_n # 0

\* the ledger's chain: entry i has sequence i, entry 0 links to the genesis
\* hash and every later entry to the entry_hash before it
WellFormedLedger(entries) ==
    \A i \in 1..Len(entries) :
        /\ entries[i].sequence = i - 1
        /\ entries[i].previous_hash =
              IF i = 1 THEN [zeros |-> 64] ELSE entries[i - 1].entry_hash

\* a step keeps every entry that was present, and a failed append keeps all
EntriesKept ==
    /\ Len(l_entries') >= Len(l_entries)
    /\ \A i \in 1..Len(l_entries) : l_entries'[i] = l_entries[i]
    /\ (l_op' = "append" /\ l_out'.kind = "raised") => l_entries' = l_entries

\* C2: every ledger reachable by successful and failed append() calls is
\* well formed: entry i has sequence i, entry 0's previous_hash is the
\* all-zero genesis hash, entry i's previous_hash is entry i-1's entry_hash,
\* and an append never changes or removes an entry already present.
C2_LedgerWellFormed ==
    [](WellFormedLedger(l_entries)) /\ [][EntriesKept]_vars

\* a full ledger of two entries on which a further append has failed
C2_Witness ==
    /\ l_op = "append"
    /\ l_out.kind = "raised"
    /\ Len(l_entries) = 2

\* C3: after any number N >= 0 of sequential append() calls, with no stored
\* entry modified afterwards, verify_chain() returns (True, None).
C3_VerifyChainAfterAppends ==
    (l_op = "verify_chain" /\ l_tamper = None) => l_out = Ok(<<TRUE, None>>)

\* verify_chain() called on three appended entries
C3_Witness ==
    /\ l_op = "verify_chain"
    /\ l_tamper = None
    /\ Len(l_entries) = 3
    /\ \E i \in 1..3 : l_entries[i].decision # None

\* C4: in a ledger built only by append(), if one stored field of exactly
\* one entry k is changed and nothing else is touched, verify_chain()
\* returns (False, k): every entry below k passes both comparisons and
\* entry k fails the previous-hash link or the recomputed entry hash.
C4_TamperReportedAtEntry ==
    (l_op = "verify_chain" /\ l_tamper # None) =>
        /\ l_out = Ok(<<FALSE, l_tamper>>)
        /\ \A i \in 1..l_tamper[1] :
              /\ l_entries[i].previous_hash =
                    (IF i = 1 THEN [zeros |-> 64] ELSE l_entries[i - 1].entry_hash)
              /\ l_entries[i].entry_hash = new_entry(SubSeq(l_entries, 1, i - 1),
                    l_entries[i].transaction, l_entries[i].decision,
                    l_entries[i].timestamp).entry_hash

\* the content of the middle entry of three was altered, its hashes were not
C4_Witness ==
    /\ l_op = "verify_chain"
    /\ l_tamper = Some(1)
    /\ Len(l_entries) = 3
    /\ l_entries[2].previous_hash = l_entries[1].entry_hash
    /\ l_entries[3].previous_hash = l_entries[2].entry_hash

\* the documented lifecycle
DocumentedEdges ==
    {<<"pending", "admitted">>, <<"pending", "rejected">>, <<"admitted", "executed">>}

TargetStatus(op) ==
    CASE op = "admit" -> "admitted"
      [] op = "reject" -> "rejected"
      [] op = "execute" -> "executed"

\* C5: over any sequence of admit(), reject(reason) and execute() calls the
\* status moves only along pending->admitted, pending->rejected and
\* admitted->executed; every other attempted transition fails with an error
\* and produces no transaction.
C5_OnlyDocumentedEdges ==
    t_op \in {"admit", "reject", "execute"} =>
        IF <<t_recv.status, TargetStatus(t_op)>> \in DocumentedEdges
        THEN t_out.kind = "ok" /\ t_out.value.status = TargetStatus(t_op)
        ELSE t_out.kind = "raised"

\* the last qualify_and_execute call: its arguments, the transaction it
\* built and what the gate decided on it
WfArgs == w_in[1]

WfMade ==
    from_ai_output(WfArgs.amount, "model-a", WfArgs.confidence, None, w_policy.version,
                   "tx-1", "session-1", LedgerNow(WfArgs.entries))

WfDecided == evaluate(w_policy, <<>>, sign(WfMade.value))

WfGateAdmits ==
    /\ w_in # None
    /\ WfMade.kind = "ok"
    /\ WfDecided.kind = "ok"
    /\ WfDecided.value.admitted

WfGateRejects ==
    /\ w_in # None
    /\ WfMade.kind = "ok"
    /\ WfDecided.kind = "ok"
    /\ ~WfDecided.value.admitted

WfAppended == w_in # None /\ Len(l_entries) = Len(WfArgs.entries) + 1

\* the invocations of one callback during the last call
WfCalls(ev) == SelectSeq(w_events, LAMBDA e : e.ev = ev)

\* whether the token sequence part occurs in whole
Contains(whole, part) ==
    \E i \in 0..(Len(whole) - Len(part)) : SubSeq(whole, i + 1, i + Len(part)) = part

\* C6: every call of qualify_and_execute that returns has appended exactly
\* one entry to the context's ledger, and that entry carries the gate
\* decision and the transaction in the same final status as the returned
\* transaction: 'executed' when the gate admitted and on_execute succeeded,
\* 'rejected' when the gate rejected or when on_execute raised.
C6_EntryCarriesFinalStatus ==
    (w_in # None /\ w_out.kind = "ok") =>
        /\ Len(l_entries) = Len(WfArgs.entries) + 1
        /\ SubSeq(l_entries, 1, Len(WfArgs.entries)) = WfArgs.entries
        /\ l_entries[Len(l_entries)].decision = Some(w_out.value.decision)
        /\ l_entries[Len(l_entries)].transaction.status = w_out.value.transaction.status
        /\ (WfGateAdmits /\ WfArgs.on_execute.kind = "ok")
              => w_out.value.transaction.status = "executed"
        /\ (WfGateRejects \/ WfArgs.on_execute.kind = "raised")
              => w_out.value.transaction.status = "rejected"

\* the callbacks of the last call as C7 states them; with needs_append the
\* "exactly once" parts are stated for calls whose ledger append succeeded
CallbacksAsStated(needs_append) ==
    LET appended == ~needs_append \/ WfAppended
        failed == WfGateAdmits /\ appended /\ WfArgs.on_execute.kind = "raised"
    IN  /\ (WfGateAdmits /\ appended) =>
              /\ Len(WfCalls("on_execute")) = 1
              /\ WfCalls("on_execute")[1].arg = WfArgs.amount
        /\ ~(WfGateAdmits /\ appended) => Len(WfCalls("on_execute")) = 0
        /\ (WfGateRejects /\ appended) =>
              /\ Len(WfCalls("on_reject")) = 1
              /\ WfCalls("on_reject")[1].arg = WfDecided.value.reason
        /\ failed =>
              /\ Len(WfCalls("on_reject")) = 1
              /\ WfCalls("on_reject")[1].arg = WfArgs.on_execute.message
        /\ ~((WfGateRejects /\ appended) \/ failed) => Len(WfCalls("on_reject")) = 0
        /\ (w_out.kind = "ok" /\ failed) =>
              /\ w_out.value.transaction.status = "rejected"
              /\ w_out.value.transaction.rejection_reason # None
              /\ Contains(w_out.value.transaction.rejection_reason[1],
                          WfArgs.on_execute.message)
        /\ (w_out.kind = "ok" /\ WfGateAdmits /\ ~failed) =>
              w_out.value.transaction.status = "executed"

\* C7 as stated: on_execute is invoked exactly once (with the proposed
\* amount) when the gate admits and never when it rejects; on_reject is
\* invoked exactly once when the gate rejects (with decision.reason) or when
\* on_execute raises (with the failure message), and never otherwise; when
\* on_execute raises the returned transaction is 'rejected' with a reason
\* containing the failure message, otherwise an admitted one is 'executed'.
C7_CallbacksAsStated == w_in # None => CallbacksAsStated(FALSE)

\* C7 (amended): the same, where "the gate admits" and "the gate rejects"
\* are read as "and the ledger append that follows succeeds": a call whose
\* append fails at capacity raises before any callback is invoked.
C7_CallbacksAfterAppend == w_in # None => CallbacksAsStated(TRUE)

\* on_execute raised after the gate admitted, and the call returned
C7_Witness ==
    /\ w_in # None
    /\ w_out.kind = "ok"
    /\ WfGateAdmits
    /\ WfArgs.on_execute.kind = "raised"
    /\ Len(WfCalls("on_reject")) = 1
    /\ Len(WfCalls("on_execute")) = 1

\* the transaction and the policy of the last evaluate
GateTx == g_tx[1]

ThresholdExceeded ==
    /\ g_policy.require_human_approval_above # None
    /\ GateTx.amount.currency = g_policy.require_human_approval_above[1].currency
    /\ GateTx.amount.minor_units > g_policy.require_human_approval_above[1].minor_units

\* C8: for every transaction and every policy, including a policy whose
\* require_human_approval_above is in another currency than the amount,
\* Gate.evaluate returns a GateDecision without raising; the human-approval
\* check never adds to checks_failed, and requires_human_approval is true
\* exactly when the threshold is set, in the amount's currency and strictly
\* below the amount.
C8_HumanApprovalNeverRaises ==
    g_tx # None =>
        /\ g_out.kind = "ok"
        /\ \A i \in 1..Len(g_out.value.checks_failed) :
              g_out.value.checks_failed[i][1] # "human_approval_check"
        /\ g_out.value.requires_human_approval <=> ThresholdExceeded

\* what each check of the gate requires of the transaction
PassesConfidence == GateTx.metadata.confidence >= g_policy.min_confidence

PassesAmount ==
    \/ g_policy.max_amount = None
    \/ /\ GateTx.amount.currency = g_policy.max_amount[1].currency
       /\ GateTx.amount.minor_units <= g_policy.max_amount[1].minor_units

PassesSource ==
    IF g_policy.allowed_sources # None
    THEN GateTx.metadata.source \in g_policy.allowed_sources[1]
    ELSE \/ g_policy.blocked_sources = None
         \/ GateTx.metadata.source \notin g_policy.blocked_sources[1]

PassesCustom == \A i \in 1..Len(g_checks) : custom_check(g_checks[i], GateTx) = None

\* where item i starts in the "; "-joined items
RECURSIVE JoinOffset(_, _)
JoinOffset(items, i) ==
    IF i = 1 THEN 0 ELSE JoinOffset(items, i - 1) + Len(items[i - 1]) + 1

IsJoined(text, items) ==
    /\ Len(text) = JoinOffset(items, Len(items)) + Len(items[Len(items)])
    /\ \A i \in 1..Len(items) :
          /\ SubSeq(text, JoinOffset(items, i) + 1, JoinOffset(items, i) + Len(items[i]))
                = items[i]
          /\ i > 1 => text[JoinOffset(items, i)] = "; "

\* C9: the decision returned by Gate.evaluate has admitted == true if and
\* only if checks_failed is empty; a transaction that passes the confidence,
\* amount, source and custom checks is admitted even when
\* requires_human_approval is true; reason is 'All checks passed' when
\* admitted and the '; '-joined checks_failed entries otherwise.
C9_AdmittedIffNoFailedCheck ==
    (g_tx # None /\ g_out.kind = "ok") =>
        /\ g_out.value.admitted <=> g_out.value.checks_failed = <<>>
        /\ (PassesConfidence /\ PassesAmount /\ PassesSource /\ PassesCustom)
              => g_out.value.admitted
        /\ g_out.value.admitted => g_out.value.reason = <<"All checks passed">>
        /\ ~g_out.value.admitted => IsJoined(g_out.value.reason, g_out.value.checks_failed)

\* admitted although human approval is required
C9_Witness ==
    /\ g_tx # None
    /\ g_out.kind = "ok"
    /\ g_out.value.admitted
    /\ g_out.value.requires_human_approval
    /\ Len(g_checks) > 0

\* C10: Gate.evaluate puts a 'confidence_check' entry in checks_failed if
\* and only if the confidence c is below min_confidence t (c == t passes);
\* a transaction with c < t is never admitted, whatever the other checks say.
C10_ConfidenceCheck ==
    (g_tx # None /\ g_out.kind = "ok") =>
        /\ (\E i \in 1..Len(g_out.value.checks_failed) :
               g_out.value.checks_failed[i][1] = "confidence_check")
              <=> GateTx.metadata.confidence < g_policy.min_confidence
        /\ GateTx.metadata.confidence < g_policy.min_confidence => ~g_out.value.admitted

\* a confidence equal to the threshold passes the confidence check
C10_Witness ==
    /\ g_tx # None
    /\ g_out.kind = "ok"
    /\ GateTx.metadata.confidence = g_policy.min_confidence
    /\ \A i \in 1..Len(g_out.value.checks_failed) :
          g_out.value.checks_failed[i][1] # "confidence_check"
    /\ \E i \in 1..Len(g_out.value.checks_passed) :
          g_out.value.checks_passed[i][1] = "confidence_check"

\* the entries of a check in a list of a decision
EntriesOf(check, entries) ==
    {i \in 1..Len(entries) : entries[i][1] = check}

\* C11: the amount check of Gate.evaluate passes when policy.max_amount is
\* unset; when it is set the check fails if the amount's currency differs
\* from max_amount's or the amount is strictly greater than max_amount, and
\* passes otherwise (an amount equal to max_amount passes); a currency
\* mismatch is a failed check, the check itself raises nothing.
C11_AmountCheck ==
    g_tx # None =>
        /\ check_amount(g_policy, GateTx).kind = "ok"
        /\ check_amount(g_policy, GateTx).value.failed # <<>> <=> ~PassesAmount
        /\ check_amount(g_policy, GateTx).value.passed # <<>> <=> PassesAmount
        /\ g_out.kind = "ok" =>
              /\ EntriesOf("amount_check", g_out.value.checks_failed) # {} <=> ~PassesAmount
              /\ EntriesOf("amount_check", g_out.value.checks_passed) # {} <=> PassesAmount
              /\ ~PassesAmount => ~g_out.value.admitted

\* an amount equal to max_amount passes the amount check
C11_Witness ==
    /\ g_tx # None
    /\ g_out.kind = "ok"
    /\ g_policy.max_amount = Some(GateTx.amount)
    /\ EntriesOf("amount_check", g_out.value.checks_passed) # {}
    /\ EntriesOf("amount_check", g_out.value.checks_failed) = {}

\* a currency other than max_amount's fails the amount check, and evaluate returns
C11_WitnessMismatch ==
    /\ g_tx # None
    /\ g_out.kind = "ok"
    /\ g_policy.max_amount # None
    /\ g_policy.max_amount[1].currency # GateTx.amount.currency
    /\ EntriesOf("amount_check", g_out.value.checks_failed) # {}

\* the two cases in which the source check is to fail
SourceFails ==
    \/ /\ g_policy.allowed_sources # None
       /\ GateTx.metadata.source \notin g_policy.allowed_sources[1]
    \/ /\ g_policy.allowed_sources = None
       /\ g_policy.blocked_sources # None
       /\ GateTx.metadata.source \in g_policy.blocked_sources[1]

\* C12: the source check of Gate.evaluate fails exactly when allowed_sources
\* is configured and the source is not a member, or allowed_sources is not
\* configured, blocked_sources is and the source is a member; with both
\* lists configured the allow-list alone decides, so a source in both passes.
C12_SourceCheck ==
    (g_tx # None /\ g_out.kind = "ok") =>
        /\ EntriesOf("source_check", g_out.value.checks_failed) # {} <=> SourceFails
        /\ EntriesOf("source_check", g_out.value.checks_passed) # {} <=> ~SourceFails
        /\ SourceFails => ~g_out.value.admitted
        /\ (/\ g_policy.allowed_sources # None
            /\ g_policy.blocked_sources # None
            /\ GateTx.metadata.source \in g_policy.allowed_sources[1]
            /\ GateTx.metadata.source \in g_policy.blocked_sources[1])
              => EntriesOf("source_check", g_out.value.checks_failed) = {}

\* a source that is in both lists passes the source check
C12_Witness ==
    /\ g_tx # None
    /\ g_out.kind = "ok"
    /\ g_policy.allowed_sources # None
    /\ g_policy.blocked_sources # None
    /\ GateTx.metadata.source \in g_policy.allowed_sources[1]
    /\ GateTx.metadata.source \in g_policy.blocked_sources[1]
    /\ EntriesOf("source_check", g_out.value.checks_passed) # {}
    /\ EntriesOf("source_check", g_out.value.checks_failed) = {}

\* two outcomes of evaluate agree: both raised the same error, or both
\* returned decisions with the same five fields
SameDecision(a, b) ==
    /\ a.kind = b.kind
    /\ a.kind = "raised" => a.error = b.error
    /\ a.kind = "ok" =>
          /\ a.value.admitted = b.value.admitted
          /\ a.value.reason = b.value.reason
          /\ a.value.checks_passed = b.value.checks_passed
          /\ a.value.checks_failed = b.value.checks_failed
          /\ a.value.requires_human_approval = b.value.requires_human_approval

Deterministic ==
    \A i, j \in 1..Len(r_log) :
        r_log[i].tx = r_log[j].tx => SameDecision(r_log[i].out, r_log[j].out)

\* an evaluation leaves the policy and the registered checks as they were
GateKept ==
    Len(r_log') > Len(r_log) => g_policy' = g_policy /\ g_checks' = g_checks

PositiveMaximum == l_arg # None /\ l_arg[1] > 0

CapacityKept == PositiveMaximum => Len(l_entries) <= l_arg[1]

\* an append() below the maximum adds the entry it returns; an append() at
\* the maximum raises and leaves the entries as they were
AppendWithinCapacity ==
    (PositiveMaximum /\ l_op' = "append") =>
        IF Len(l_entries) < l_arg[1]
        THEN /\ l_out'.kind = "ok"
             /\ l_entries' = Append(l_entries, l_out'.value)
        ELSE /\ l_out'.kind = "raised"
             /\ l_out'.error = "ValueError"
             /\ l_entries' = l_entries

\* C14: for a ledger configured with a positive maximum M, append() succeeds
\* while the ledger holds fewer than M entries; once it holds M entries every
\* further append() fails with a capacity error and leaves the entries
\* unchanged, so the entry count never exceeds M.
C14_CapacityEnforced == []CapacityKept /\ [][AppendWithinCapacity]_vars

\* an append() refused by a ledger that holds its maximum of two entries
C14_Witness ==
    /\ PositiveMaximum
    /\ l_arg[1] > 1
    /\ Len(l_entries) = l_arg[1]
    /\ l_op = "append"
    /\ l_out.kind = "raised"

\* the content the signature of tx was computed over by sign(): the digest
\* is injective, so the signature determines it
SignedOver(tx) == tx.signature[1].sha256.json

\* the signature of tx was computed over tx's own tx_id, amount and metadata
SignedOverOwn(tx) ==
    /\ SignedOver(tx).tx_id = tx.tx_id
    /\ SignedOver(tx).amount.minor_units = tx.amount.minor_units
    /\ SignedOver(tx).amount.currency = tx.amount.currency
    /\ SignedOver(tx).metadata.source = tx.metadata.source
    /\ SignedOver(tx).metadata.confidence = tx.metadata.confidence
    /\ SignedOver(tx).metadata.timestamp = isoformat(tx.metadata.timestamp)
    /\ SignedOver(tx).metadata.rationale = tx.metadata.rationale
    /\ SignedOver(tx).metadata.epistemic_status = tx.metadata.epistemic_status
    /\ SignedOver(tx).metadata.policy_version = tx.metadata.policy_version
    /\ SignedOver(tx).metadata.session_id = tx.metadata.session_id
    /\ SignedOver(tx).metadata.parent_tx_id = tx.metadata.parent_tx_id

\* C15: verify_signature() returns False for a transaction with no
\* signature, True for the result of sign() and for that result after any
\* admit/reject/execute, and False for any transaction that carries a
\* signature computed by sign() over a different tx_id, amount or metadata
\* than its own.
C15_VerifySignature ==
    /\ TxHeld.signature = None => ~verify_signature(TxHeld)
    /\ t_op = "sign" => verify_signature(t_out.value)
    /\ (t_op \in {"admit", "reject", "execute"} /\ t_out.kind = "ok") =>
          (verify_signature(t_out.value) <=> verify_signature(t_recv))
    /\ TxHeld.signature # None => (verify_signature(TxHeld) <=> SignedOverOwn(TxHeld))

\* a transaction built with another amount around a signature made by
\* sign() does not verify
C15_Witness ==
    /\ t_op = "construct"
    /\ verify_signature(t_recv)
    /\ t_out.value.signature = t_recv.signature
    /\ t_out.value.tx_id = t_recv.tx_id
    /\ t_out.value.metadata = t_recv.metadata
    /\ t_out.value.amount # t_recv.amount
    /\ ~verify_signature(t_out.value)

\* a signed transaction still verifies after admit() and execute()
C15_WitnessExecuted ==
    /\ t_op = "execute"
    /\ t_out.kind = "ok"
    /\ verify_signature(t_out.value)

\* C16: execute() called on a transaction whose status is anything other
\* than 'admitted' (pending, rejected or executed) fails with an error and
\* returns no transaction; called on an admitted transaction it returns a
\* transaction with status 'executed' and the same tx_id, amount, metadata
\* and signature.
C16_ExecuteOnlyAdmitted ==
    t_op = "execute" =>
        IF t_recv.status = "admitted"
        THEN /\ t_out.kind = "ok"
             /\ t_out.value.status = "executed"
             /\ t_out.value.tx_id = t_recv.tx_id
             /\ t_out.value.amount = t_recv.amount
             /\ t_out.value.metadata = t_recv.metadata
             /\ t_out.value.signature = t_recv.signature
        ELSE /\ t_out.kind = "raised"
             /\ t_out.error = "ValueError"

\* execute() called a second time, on the executed transaction, raises
C16_Witness ==
    /\ t_op = "execute"
    /\ t_recv.status = "executed"
    /\ t_recv.signature # None
    /\ t_out.kind = "raised"

\* the minor units of the parts returned
Parts == [i \in 1..Len(d_out.value) |-> d_out.value[i].minor_units]

\* C17: for every positive Money m and every valid n (1 <= n <= 10000), the
\* largest and the smallest part of m.distribute(n) differ by at most one
\* minor unit.
C17_DistributeFair ==
    (d_out.kind = "ok" /\ d_m.minor_units > 0) =>
        \A i, j \in 1..Len(Parts) : Parts[i] - Parts[j] <= 1

\* a positive amount that does not divide evenly: parts one minor unit apart
C17_Witness ==
    /\ d_out.kind = "ok"
    /\ d_m.minor_units > 0
    /\ d_n >= 3
    /\ d_m.minor_units % d_n >= 2
    /\ \E i, j \in 1..Len(Parts) : Parts[i] - Parts[j] = 1

\* C18: for every Money m and valid n, with base = floor(minorUnits / n) and
\* remainder = minorUnits mod n in [0, n), m.distribute(n) gives base + 1
\* minor units to the parts at indices 0..remainder-1 and base to all later
\* parts; Money.euro(2026).distribute(12) yields 4 parts of 16884 cents
\* followed by 8 parts of 16883 cents.
C18_DistributeLayout ==
    /\ d_out.kind = "ok" =>
          LET base == d_m.minor_units \div d_n
              remainder == d_m.minor_units % d_n
          IN  /\ base * d_n <= d_m.minor_units
              /\ d_m.minor_units < (base + 1) * d_n
              /\ remainder = d_m.minor_units - base * d_n
              /\ Len(Parts) = d_n
              /\ \A i \in 1..d_n :
                    Parts[i] = IF i - 1 < remainder THEN base + 1 ELSE base
    /\ (d_out # NoCall /\ d_m = [minor_units |-> 202600, currency |-> "EUR"] /\ d_n = 12) =>
          /\ d_out.kind = "ok"
          /\ Parts = <<16884, 16884, 16884, 16884, 16883, 16883,
                       16883, 16883, 16883, 16883, 16883, 16883>>
          /\ \A i \in 1..12 : d_out.value[i].currency = "EUR"

\* Money.euro(2026).distribute(12) has been called
C18_Witness ==
    /\ d_m = euro(2026)
    /\ d_n = 12
    /\ d_out.kind = "ok"
    /\ Parts[4] = 16884
    /\ Parts[5] = 16883

\* the weights of the call, and the minor units of the parts it returned
CallWeights == m_args.arg
WeightedParts == [i \in 1..Len(m_out.value) |-> m_out.value[i].minor_units]

\* a non-empty list of non-negative weights, one of them positive
ValidWeights(weights) ==
    /\ Len(weights) > 0
    /\ Len(weights) <= MAX_DISTRIBUTION_PARTS
    /\ \A i \in 1..Len(weights) : weights[i] >= 0
    /\ \E i \in 1..Len(weights) : weights[i] > 0

\* the first index that holds the maximum weight
FirstMaximum(weights) ==
    CHOOSE i \in 1..Len(weights) :
        /\ \A j \in 1..Len(weights) : weights[j] <= weights[i]
        /\ \A j \in 1..(i - 1) : weights[j] < weights[i]

\* the values the rounding of minorUnits * weight / sum(weights) can give
RoundedShares(i) ==
    {apply_rounding(v, m_args.rounding) :
        v \in float_times_quotient(m_recv.minor_units, CallWeights[i], SumSeq(CallWeights))}

\* C19: for every Money m, every non-empty list of non-negative weights with
\* at least one strictly positive weight and every rounding mode,
\* m.distribute_weighted(weights) returns one part per weight whose minor
\* units sum to exactly m's minor units; each part equals the rounded value
\* of minorUnits * weight / sum(weights), except that the part at the first
\* index holding the maximum weight additionally receives the residual
\* minorUnits - sum(rounded parts).
C19_WeightedSumAndShares ==
    (m_op = "distribute_weighted" /\ ValidWeights(CallWeights)) =>
        /\ m_out.kind = "ok"
        /\ Len(m_out.value) = Len(CallWeights)
        /\ \A i \in 1..Len(m_out.value) : m_out.value[i].currency = m_recv.currency
        /\ SumSeq(WeightedParts) = m_recv.minor_units
        /\ \A i \in 1..Len(CallWeights) :
              \/ WeightedParts[i] \in RoundedShares(i)
              \/ /\ i = FirstMaximum(CallWeights)
                 /\ \E r \in RoundedShares(i) :
                       LET rounded_sum == SumSeq(WeightedParts) - WeightedParts[i] + r
                       IN  /\ rounded_sum # m_recv.minor_units
                           /\ WeightedParts[i] = r + (m_recv.minor_units - rounded_sum)
        /\ \A i \in 1..Len(CallWeights) :
              LET distance == WeightedParts[i] * SumSeq(CallWeights)
                                 - m_recv.minor_units * CallWeights[i]
              IN  i # FirstMaximum(CallWeights) =>
                      -SumSeq(CallWeights) <= distance /\ distance <= SumSeq(CallWeights)

\* two weights tie for the maximum and the rounded shares do not add up:
\* the first of the two carries the residual
C19_Witness ==
    /\ m_op = "distribute_weighted"
    /\ m_out.kind = "ok"
    /\ Len(CallWeights) = 3
    /\ CallWeights[2] = CallWeights[3]
    /\ CallWeights[1] < CallWeights[2]
    /\ CallWeights[1] > 0
    /\ WeightedParts[2] \notin RoundedShares(2)
    /\ WeightedParts[3] \in RoundedShares(3)
    /\ m_recv.minor_units < 0

\* net + vat == gross, as Money
AddsUp(net, vat, gross) ==
    /\ money_add(net, vat).kind = "ok"
    /\ money_eq(money_add(net, vat).value, gross)

\* what the three operations return
FiscalIdentity ==
    /\ m_out.kind = "ok"
    /\ m_op = "add_vat" =>
          /\ money_eq(m_out.value[1], m_recv)
          /\ AddsUp(m_out.value[1], m_out.value[2], m_out.value[3])
    /\ m_op = "extract_vat" =>
          /\ money_eq(m_out.value[3], m_recv)
          /\ AddsUp(m_out.value[1], m_out.value[2], m_out.value[3])
    /\ m_op = "apply_discount" =>
          AddsUp(m_out.value[1], m_out.value[2], m_recv)

\* C20, as stated: for every Money m, every rate or percentage and every
\* rounding mode, add_vat returns (net, vat, gross) with net == m and
\* net + vat == gross; extract_vat returns (net, vat, gross) with gross == m
\* and net + vat == gross; apply_discount returns (discount, discounted)
\* with discount + discounted == m.
C20_FiscalIdentities ==
    m_op \in {"add_vat", "extract_vat", "apply_discount"} => FiscalIdentity

\* C20, amended: the same for every rate except that extract_vat at a rate
\* of -100 raises ZeroDivisionError (it divides by 1 + rate / 100) and
\* returns nothing.
C20_FiscalIdentitiesWhereDefined ==
    m_op \in {"add_vat", "extract_vat", "apply_discount"} =>
        IF m_op = "extract_vat" /\ m_args.arg = -100
        THEN m_out.kind = "raised" /\ m_out.error = "ZeroDivisionError"
        ELSE FiscalIdentity

\* extract_vat on a gross amount whose net is rounded
C20_Witness ==
    /\ m_op = "extract_vat"
    /\ m_args.arg = 22
    /\ m_out.kind = "ok"
    /\ m_recv.minor_units = 12
    /\ m_out.value[1].minor_units = 10
    /\ m_out.value[2].minor_units = 2

----------------------------------------------------------------------------
(* Rounding modes at and beside the ties *)

\* a call that rounded a float under the mode, the float it rounded and the
\* integer it returned
Rounded(mode) == m_op \in {"_apply_rounding", "from_float"} /\ m_args.rounding = mode
RoundedValue ==
    IF m_op = "_apply_rounding" THEN m_args.arg
    ELSE Rat(m_args.arg[1].num * multiplier(m_args.arg[2]), m_args.arg[1].den)
RoundedResult ==
    IF m_op = "_apply_rounding" THEN m_out.value ELSE m_out.value.minor_units

IsInteger(v) == v.num % v.den = 0
IsTie(v) == (2 * v.num) % v.den = 0 /\ ~IsInteger(v)

\* C21: for a tie v = k + 1/2, negative ties included, HALF_UP returns the
\* neighbour farther from zero: k + 1 when v > 0 and k when v < 0
C21_HalfUpTiesAwayFromZero ==
    (Rounded("half_up") /\ IsTie(RoundedValue)) =>
        RoundedResult = IF RoundedValue.num > 0 THEN floor(RoundedValue) + 1
                        ELSE floor(RoundedValue)

\* C22: UP returns v when v is an integer and otherwise the adjacent integer
\* of larger absolute value, the ceiling for v > 0 and the floor for v < 0,
\* so the result is never nearer zero than v
C22_UpAwayFromZero ==
    Rounded("up") =>
        /\ RoundedResult = IF IsInteger(RoundedValue) THEN floor(RoundedValue)
                           ELSE IF RoundedValue.num > 0 THEN ceil(RoundedValue)
                           ELSE floor(RoundedValue)
        /\ (IF RoundedResult < 0 THEN -RoundedResult ELSE RoundedResult) * RoundedValue.den
               >= (IF RoundedValue.num < 0 THEN -RoundedValue.num ELSE RoundedValue.num)

----------------------------------------------------------------------------
(* Arithmetic and comparison across currencies and types *)

ArithOp == m_op \in {"add", "sub", "mul", "eq", "lt", "le", "gt", "ge"}
Other == m_args.arg
OtherCurrency == isinstance_Money(Other) /\ Other.currency # m_recv.currency
SameCurrency == isinstance_Money(Other) /\ Other.currency = m_recv.currency
TypeMismatch == m_out = Raised("TypeError")

\* the exact result on same-currency operands, and of a product by an int
ExactResult ==
    CASE m_op = "add" -> of_minor(m_recv.minor_units + Other.minor_units, m_recv.currency)
      [] m_op = "sub" -> of_minor(m_recv.minor_units - Other.minor_units, m_recv.currency)
      [] m_op = "mul" -> of_minor(m_recv.minor_units * Other.int, m_recv.currency)
      [] m_op = "eq" -> m_recv.minor_units = Other.minor_units
      [] m_op = "lt" -> m_recv.minor_units < Other.minor_units
      [] m_op = "le" -> m_recv.minor_units <= Other.minor_units
      [] m_op = "gt" -> m_recv.minor_units > Other.minor_units
      [] m_op = "ge" -> m_recv.minor_units >= Other.minor_units

\* C23: on Money values of different currencies +, -, <, <=, > and >= each
\* fail with a type error and == is false; adding or subtracting a raw
\* number and multiplying by a non-integer fail the same way; same-currency
\* operands give the exact integer result in that currency
C23_TypeSafeArithmetic ==
    ArithOp =>
        /\ (OtherCurrency /\ m_op \in {"add", "sub", "lt", "le", "gt", "ge"}) => TypeMismatch
        /\ (OtherCurrency /\ m_op = "eq") => m_out = Ok(FALSE)
        /\ (~isinstance_Money(Other) /\ m_op \in {"add", "sub"}) => TypeMismatch
        /\ (~isinstance_int(Other) /\ m_op = "mul") => TypeMismatch
        /\ (SameCurrency /\ m_op # "mul") => m_out = Ok(ExactResult)
        /\ (isinstance_int(Other) /\ m_op = "mul") => m_out = Ok(ExactResult)

\* a subtraction across currencies was attempted and failed, and another on
\* one currency gave a Money
C23_Witness ==
    /\ m_op = "sub"
    /\ OtherCurrency
    /\ TypeMismatch

C23_WitnessSameCurrency ==
    /\ m_op = "sub"
    /\ SameCurrency
    /\ Other.minor_units # 0
    /\ m_out = Ok(of_minor(m_recv.minor_units - Other.minor_units, m_recv.currency))

----------------------------------------------------------------------------
(* Allocation: what finalize() returns *)

\* the sum of the minor units of a list of Money
RECURSIVE SumMinor(_)
SumMinor(parts) ==
    IF parts = <<>> THEN 0 ELSE Head(parts).minor_units + SumMinor(Tail(parts))

\* C24: whatever same-currency fixed() calls were made, every finalize()
\* call, a second or later one and one after further fixed() calls
\* included, returns parts whose sum equals the total
C24_FinalizeSumsToTotal ==
    a_op = "finalize" =>
        /\ a_out.kind = "ok"
        /\ SumMinor(a_out.value) = a_total.minor_units
        /\ \A i \in 1..Len(a_out.value) : a_out.value[i].currency = a_total.currency

\* the first finalize() of an Allocation does return parts that sum to the
\* total
C24_FirstFinalizeSumsToTotal ==
    (a_op = "finalize" /\ a_finalized = 1) =>
        /\ a_out.kind = "ok"
        /\ SumMinor(a_out.value) = a_total.minor_units

----------------------------------------------------------------------------
(* qualify_and_execute: the success flag and the order of append and       *)
(* callbacks                                                               *)

\* C25: the first element of the tuple qualify_and_execute returns is True
\* exactly when the returned transaction has status 'executed'; when that
\* status is 'rejected', by the gate or because on_execute failed, it is
\* False
C25_SuccessIffExecuted ==
    (w_out.kind = "ok") =>
        /\ w_out.value.success <=> (w_out.value.transaction.status = "executed")
        /\ (w_out.value.transaction.status = "rejected") => ~w_out.value.success

\* the ledger was at capacity when the last call was made
WfAtCapacity == w_in # None /\ Len(WfArgs.entries) >= l_max

\* C26: in every run of qualify_and_execute a callback is invoked only
\* after the ledger entry of that transaction has been appended; when the
\* ledger is at capacity, so that append() fails, the call raises, neither
\* callback is invoked and the ledger is unchanged
C26_AppendBeforeCallbacks ==
    w_in # None =>
        /\ \A i \in 1..Len(w_events) :
              w_events[i].ev \in {"on_execute", "on_reject"} =>
                  /\ \E j \in 1..(i - 1) : w_events[j].ev = "append"
                  /\ WfAppended
                  /\ l_entries[Len(l_entries)].transaction.tx_id = WfMade.value.tx_id
        /\ WfAtCapacity =>
              /\ w_out.kind = "raised"
              /\ (WfGateAdmits \/ WfGateRejects) => w_out = Raised("ValueError")
              /\ w_events = <<>>
              /\ l_entries = WfArgs.entries

\* a call on a full ledger whose transaction the gate rejected
C26_Witness ==
    /\ WfAtCapacity
    /\ WfGateRejects
    /\ WfArgs.entries # <<>>
    /\ w_out = Raised("ValueError")

\* a call whose on_reject ran after the append
C26_WitnessCallback ==
    /\ WfGateRejects
    /\ WfAppended
    /\ Len(WfCalls("on_reject")) = 1

----------------------------------------------------------------------------
(* SignedTransaction: what the methods keep *)

\* C27: sign, admit, reject and execute leave the receiver unchanged and
\* return a transaction with the same tx_id, amount and metadata; admit,
\* reject and execute carry the signature over and sign preserves status
\* and rejection_reason, so a signed transaction keeps its signature
\* through every later transition and re-signing yields the same signature
C27_MethodsKeepIdentity ==
    [][LET held == TxHeld
           res == t_out'
       IN  /\ t_recv' = held
           /\ res.kind = "ok" =>
                 /\ res.value.tx_id = held.tx_id
                 /\ res.value.amount = held.amount
                 /\ res.value.metadata = held.metadata
                 /\ t_op' \in {"admit", "reject", "execute"} =>
                        res.value.signature = held.signature
                 /\ t_op' = "sign" =>
                        /\ res.value.status = held.status
                        /\ res.value.rejection_reason = held.rejection_reason
                        /\ res.value.signature # None
                 /\ held.signature # None => res.value.signature = held.signature
           /\ res.kind = "raised" => TxHeld' = held]_vars

\* a transaction signed while pending was re-signed after it was rejected,
\* and carries the signature it had
C27_Witness ==
    /\ t_op = "sign"
    /\ t_recv.status = "rejected"
    /\ t_recv.signature # None
    /\ t_out.kind = "ok"
    /\ t_out.value.signature = t_recv.signature

----------------------------------------------------------------------------
(* distribute_weighted: the range of the parts *)

\* C28: for a Money m with non-negative minor units, a valid weight list
\* and any rounding mode, each part m.distribute_weighted(weights) returns
\* has non-negative minor units and none exceeds m
C28_WeightedPartsWithinTotal ==
    (m_op = "distribute_weighted" /\ m_recv.minor_units >= 0 /\ ValidWeights(CallWeights)) =>
        /\ m_out.kind = "ok"
        /\ \A i \in 1..Len(WeightedParts) :
              /\ 0 <= WeightedParts[i]
              /\ WeightedParts[i] <= m_recv.minor_units

\* no part exceeds m, and only the part that takes the residual can be
\* negative
C28_OnlyAdjustedPartNegative ==
    (m_op = "distribute_weighted" /\ m_recv.minor_units >= 0 /\ ValidWeights(CallWeights)) =>
        /\ m_out.kind = "ok"
        /\ \A i \in 1..Len(WeightedParts) :
              /\ WeightedParts[i] <= m_recv.minor_units
              /\ i # FirstMaximum(CallWeights) => 0 <= WeightedParts[i]

----------------------------------------------------------------------------
(* verify_chain after an entry was altered and its hash recomputed *)

\* the altered entry (1-based), whether it is the newest, and whether its
\* previous_hash still is the hash of the entry below it
Altered == l_tamper[1] + 1
AlteredIsLast == Altered = Len(l_entries)
LinkKept ==
    l_entries[Altered].previous_hash =
        (IF Altered = 1 THEN GENESIS_HASH ELSE l_entries[Altered - 1].entry_hash)

\* what C29 states verify_chain() returns
RehashUndetectedAtEntry ==
    IF AlteredIsLast THEN <<TRUE, None>> ELSE <<FALSE, Some(l_tamper[1] + 1)>>

\* C29: if the content of entry k of an append-built ledger is altered and
\* its entry_hash recomputed to match, no later entry touched, verify_chain()
\* returns (False, k+1) when entry k is not the last one and (True, None)
\* when it is
C29_RehashedEntryPasses ==
    (l_op = "verify_chain" /\ l_tamper # None) => l_out = Ok(RehashUndetectedAtEntry)

\* C29 (amended): that is what verify_chain() returns when the altered
\* content is the sequence, timestamp, transaction or decision; an altered
\* previous_hash, which the hash covers too, is reported at entry k itself
C29_RehashedEntryPassesUnlessLinkAltered ==
    (l_op = "verify_chain" /\ l_tamper # None) =>
        l_out = Ok(IF LinkKept THEN RehashUndetectedAtEntry ELSE <<FALSE, l_tamper>>)

\* the transaction of the newest of two entries was altered and re-hashed,
\* and the chain verified
C29_Witness ==
    /\ l_op = "verify_chain"
    /\ l_tamper = Some(1)
    /\ Len(l_entries) = 2
    /\ LinkKept
    /\ l_entries[2].transaction \notin LedgerTxs
    /\ l_out = Ok(<<TRUE, None>>)

\* the first of three entries was altered and re-hashed
C29_WitnessNotLast ==
    /\ l_op = "verify_chain"
    /\ l_tamper = Some(0)
    /\ Len(l_entries) = 3
    /\ LinkKept
    /\ l_out = Ok(<<FALSE, Some(1)>>)

----------------------------------------------------------------------------
(* Ledger(max_entries=0) *)

\* C30: a ledger constructed with max_entries = 0 has capacity zero: every
\* append() on it fails with the capacity error and it stays empty
C30_ZeroCapacity ==
    l_arg = Some(0) =>
        /\ l_entries = <<>>
        /\ l_op = "append" => l_out = Raised("ValueError")
====
